---- MODULE Spec2Model ----
(***************************************************************************)
(* Model of hpde_analytics_cli/utils/report_generator.py: the Time Trials  *)
(* report built by ReportGenerator.generate_tt_report from the entry list, *)
(* the attendee roster and the assignment feed.                            *)
(*                                                                         *)
(* Python str values are sequences of one-character strings, so that       *)
(* strip(), lower(), "in", startswith() and the ordering of str are        *)
(* computed rather than assumed.  None is the value NULL and a key that a  *)
(* row does not have holds ABSENT.  The fixed labels the code returns      *)
(* ("Friday", "All 3", "TT Only", ...) are TLA+ strings.                   *)
(***************************************************************************)
EXTENDS Integers, Sequences, FiniteSets, TLC

(***************************************************************************)
(* Bounds of the model                                                     *)
(***************************************************************************)
MaxEntries == 3
MaxMixed == 2
MaxAttendees == 2
MaxAssignments == 2
MaxCalls == 2
MaxRetries == 2

(***************************************************************************)
(* Python values                                                           *)
(***************************************************************************)
NULL == <<"None">>
ABSENT == <<"absent">>
EMPTY == <<>>

UPPER == <<"A", "B", "C", "D", "E", "F", "G", "H", "I", "J", "K", "L", "M",
           "N", "O", "P", "Q", "R", "S", "T", "U", "V", "W", "X", "Y", "Z">>
LOWER == <<"a", "b", "c", "d", "e", "f", "g", "h", "i", "j", "k", "l", "m",
           "n", "o", "p", "q", "r", "s", "t", "u", "v", "w", "x", "y", "z">>
DIGITS == <<"0", "1", "2", "3", "4", "5", "6", "7", "8", "9">>
WHITESPACE == {" "}

CHARS == {UPPER[n] : n \in 1..26} \cup {LOWER[n] : n \in 1..26}
           \cup {DIGITS[n] : n \in 1..10} \cup {" ", "-", "@", "|"}

\* ord(c): the code point of a character, which orders str values
OrdTable ==
  [c \in CHARS |->
     IF \E n \in 1..26 : UPPER[n] = c THEN 64 + (CHOOSE n \in 1..26 : UPPER[n] = c)
     ELSE IF \E n \in 1..26 : LOWER[n] = c THEN 96 + (CHOOSE n \in 1..26 : LOWER[n] = c)
     ELSE IF \E n \in 1..10 : DIGITS[n] = c THEN 47 + (CHOOSE n \in 1..10 : DIGITS[n] = c)
     ELSE IF c = " " THEN 32
     ELSE IF c = "-" THEN 45
     ELSE IF c = "@" THEN 64
     ELSE 124]
Ord(c) == OrdTable[c]

\* str.lower() of one character
LowerTable ==
  [c \in CHARS |->
     IF \E n \in 1..26 : UPPER[n] = c
     THEN LOWER[CHOOSE n \in 1..26 : UPPER[n] = c]
     ELSE c]
LowerChar(c) == LowerTable[c]

\* str.lower()
Lower(s) == [n \in 1..Len(s) |-> LowerChar(s[n])]

\* str.strip()
Strip(s) ==
  LET keep == {n \in 1..Len(s) : s[n] \notin WHITESPACE}
  IN IF keep = {} THEN EMPTY
     ELSE SubSeq(s, CHOOSE n \in keep : \A m \in keep : n <= m,
                    CHOOSE n \in keep : \A m \in keep : n >= m)

\* pat in s
Contains(pat, s) ==
  \E n \in 0..(Len(s) - Len(pat)) : SubSeq(s, n + 1, n + Len(pat)) = pat

\* s.startswith(pat)
StartsWith(s, pat) ==
  Len(s) >= Len(pat) /\ SubSeq(s, 1, Len(pat)) = pat

\* a < b for two str values (lexicographic by code point)
StrLess(a, b) ==
  \E n \in 1..(Len(b)) :
     /\ n <= Len(a) + 1
     /\ \A m \in 1..(n - 1) : a[m] = b[m]
     /\ \/ n = Len(a) + 1
        \/ n <= Len(a) /\ Ord(a[n]) < Ord(b[n])

\* bool(v) of a str or None
Truthy(v) == v # NULL /\ v # ABSENT /\ v # EMPTY

\* row.get(k, default)
Get(row, k, default) == IF row[k] = ABSENT THEN default ELSE row[k]

\* row.get(k)
GetOrNone(row, k) == IF row[k] = ABSENT THEN NULL ELSE row[k]

\* (v or "")
OrEmpty(v) == IF Truthy(v) THEN v ELSE EMPTY

(***************************************************************************)
(* Text constants of the classification rules                              *)
(***************************************************************************)
TIME_TRIALS == <<"t", "i", "m", "e", " ", "t", "r", "i", "a", "l", "s">>
INSTRUCTING == <<"i", "n", "s", "t", "r", "u", "c", "t", "i", "n", "g">>
ADVANCED_HPDE == <<"a", "d", "v", "a", "n", "c", "e", "d", " ", "h", "p", "d", "e">>
WORKERS == <<"w", "o", "r", "k", "e", "r", "s">>
FRIDAY == <<"f", "r", "i", "d", "a", "y">>
SATURDAY == <<"s", "a", "t", "u", "r", "d", "a", "y">>
SUNDAY == <<"s", "u", "n", "d", "a", "y">>
MAX == <<"m", "a", "x">>
SPORT == <<"s", "p", "o", "r", "t">>
TUNER == <<"t", "u", "n", "e", "r">>
UNLIMITED == <<"u", "n", "l", "i", "m", "i", "t", "e", "d">>
BAR == <<"|">>
NoDay == "None"

(***************************************************************************)
(* Classification rules and identity key                                   *)
(***************************************************************************)
\* _get_driver_key without lower(): the key keeps the letter case
get_driver_key_cased(row) ==
  Strip(OrEmpty(GetOrNone(row, "firstName"))) \o BAR
     \o Strip(OrEmpty(GetOrNone(row, "lastName")))

get_driver_key(row) ==
  Lower(Strip(OrEmpty(GetOrNone(row, "firstName")))) \o BAR
     \o Lower(Strip(OrEmpty(GetOrNone(row, "lastName"))))

\* _parse_segment that looks for Sunday first
parse_segment_sunday_first(segment) ==
  IF ~Truthy(segment) THEN NoDay
  ELSE IF Contains(SUNDAY, Lower(segment)) THEN "Sunday"
  ELSE IF Contains(SATURDAY, Lower(segment)) THEN "Saturday"
  ELSE IF Contains(FRIDAY, Lower(segment)) THEN "Friday"
  ELSE NoDay

parse_segment(segment) ==
  IF ~Truthy(segment) THEN NoDay
  ELSE IF Contains(FRIDAY, Lower(segment)) THEN "Friday"
  ELSE IF Contains(SATURDAY, Lower(segment)) THEN "Saturday"
  ELSE IF Contains(SUNDAY, Lower(segment)) THEN "Sunday"
  ELSE NoDay

\* _is_time_trials that compares the whole text instead of searching it
is_time_trials_exact(group) ==
  IF ~Truthy(group) THEN FALSE ELSE Lower(group) = TIME_TRIALS

\* _is_time_trials that accepts every non-empty group
is_time_trials_any(group) == Truthy(group)

is_time_trials(group) ==
  IF ~Truthy(group) THEN FALSE ELSE Contains(TIME_TRIALS, Lower(group))

is_instructor(group) ==
  IF ~Truthy(group) THEN FALSE ELSE Contains(INSTRUCTING, Lower(group))

\* _is_advanced_hpde without lower()
is_advanced_hpde_cased(group) ==
  IF ~Truthy(group) THEN FALSE ELSE Contains(ADVANCED_HPDE, group)

is_advanced_hpde(group) ==
  IF ~Truthy(group) THEN FALSE ELSE Contains(ADVANCED_HPDE, Lower(group))

\* _is_worker_only that only recognises the empty segment
is_worker_only_empty_only(segment) == ~Truthy(segment)

is_worker_only(segment) ==
  IF ~Truthy(segment) THEN TRUE ELSE Contains(WORKERS, Lower(segment))

\* _get_participation_type that tests for AYCE before it tests for both
get_participation_type_ayce_first(is_instr, is_ayce) ==
  IF is_ayce THEN "TT + AYCE"
  ELSE IF is_instr /\ is_ayce THEN "TT + Instructor + AYCE"
  ELSE IF is_instr THEN "TT + Instructor"
  ELSE "TT Only"

get_participation_type(is_instr, is_ayce) ==
  IF is_instr /\ is_ayce THEN "TT + Instructor + AYCE"
  ELSE IF is_instr THEN "TT + Instructor"
  ELSE IF is_ayce THEN "TT + AYCE"
  ELSE "TT Only"

get_day_count(day_count) ==
  IF day_count = 1 THEN "1 Day"
  ELSE IF day_count = 2 THEN "2 Days"
  ELSE IF day_count >= 3 THEN "3 Days"
  ELSE ""

\* _format_days_string without the Friday and Sunday branch
format_days_string_no_fri_sun(days_tt) ==
  LET has_fri == "Friday" \in days_tt
      has_sat == "Saturday" \in days_tt
      has_sun == "Sunday" \in days_tt
      day_count == (IF has_fri THEN 1 ELSE 0) + (IF has_sat THEN 1 ELSE 0)
                     + (IF has_sun THEN 1 ELSE 0)
  IN IF day_count = 3 THEN <<"All 3", day_count>>
     ELSE IF day_count = 2
       THEN IF has_fri /\ has_sat THEN <<"Fri/Sat", day_count>>
            ELSE <<"Sat/Sun", day_count>>
     ELSE IF day_count = 1
       THEN IF has_fri THEN <<"Friday", day_count>>
            ELSE IF has_sat THEN <<"Saturday", day_count>>
            ELSE <<"Sunday", day_count>>
     ELSE <<"", day_count>>

\* _format_days_string: <<display string, day count>>
format_days_string(days_tt) ==
  LET has_fri == "Friday" \in days_tt
      has_sat == "Saturday" \in days_tt
      has_sun == "Sunday" \in days_tt
      day_count == (IF has_fri THEN 1 ELSE 0) + (IF has_sat THEN 1 ELSE 0)
                     + (IF has_sun THEN 1 ELSE 0)
  IN IF day_count = 3 THEN <<"All 3", day_count>>
     ELSE IF day_count = 2
       THEN IF has_fri /\ has_sat THEN <<"Fri/Sat", day_count>>
            ELSE IF has_fri /\ has_sun THEN <<"Fri/Sun", day_count>>
            ELSE <<"Sat/Sun", day_count>>
     ELSE IF day_count = 1
       THEN IF has_fri THEN <<"Friday", day_count>>
            ELSE IF has_sat THEN <<"Saturday", day_count>>
            ELSE <<"Sunday", day_count>>
     ELSE <<"", day_count>>

\* _format_vehicle_string: " ".join of the non-empty year, make, model
format_vehicle_string(driver) ==
  LET p1 == IF Truthy(driver.year) THEN <<driver.year>> ELSE <<>>
      p2 == IF Truthy(driver.make) THEN <<driver.make>> ELSE <<>>
      p3 == IF Truthy(driver.model) THEN <<driver.model>> ELSE <<>>
      parts == p1 \o p2 \o p3
  IN IF Len(parts) = 0 THEN EMPTY
     ELSE IF Len(parts) = 1 THEN parts[1]
     ELSE IF Len(parts) = 2 THEN parts[1] \o <<" ">> \o parts[2]
     ELSE parts[1] \o <<" ">> \o parts[2] \o <<" ">> \o parts[3]

\* _get_class_group without strip()
get_class_group_no_strip(tt_class) ==
  IF ~Truthy(tt_class) THEN "Other"
  ELSE LET class_lower == Lower(tt_class)
       IN IF StartsWith(class_lower, MAX) THEN "Max"
          ELSE IF StartsWith(class_lower, SPORT) THEN "Sport"
          ELSE IF StartsWith(class_lower, TUNER) THEN "Tuner"
          ELSE IF StartsWith(class_lower, UNLIMITED) THEN "Unlimited"
          ELSE "Other"

get_class_group(tt_class) ==
  IF ~Truthy(tt_class) THEN "Other"
  ELSE LET class_lower == Strip(Lower(tt_class))
       IN IF StartsWith(class_lower, MAX) THEN "Max"
          ELSE IF StartsWith(class_lower, SPORT) THEN "Sport"
          ELSE IF StartsWith(class_lower, TUNER) THEN "Tuner"
          ELSE IF StartsWith(class_lower, UNLIMITED) THEN "Unlimited"
          ELSE "Other"

(***************************************************************************)
(* Input texts                                                             *)
(***************************************************************************)
S_John == <<"J", "o", "h", "n">>
S_Doe == <<"D", "o", "e">>
S_JOHN_sp == <<" ", "J", "O", "H", "N">>
S_doe_sp == <<"d", "o", "e", " ">>
S_Jane == <<"J", "a", "n", "e">>
S_Smith == <<"S", "m", "i", "t", "h">>
S_Bob == <<"B", "o", "b">>
S_Jones == <<"J", "o", "n", "e", "s">>
S_Worker == <<"W", "o", "r", "k", "e", "r">>
S_Only == <<"O", "n", "l", "y">>
S_Blank == <<" ", " ">>
S_SatTT == <<"S", "a", "t", "u", "r", "d", "a", "y", " ", "T", "i", "m", "e", " ", "T", "r", "i", "a", "l", "s">>
S_SunTT == <<"S", "u", "n", "d", "a", "y", " ", "T", "i", "m", "e", " ", "T", "r", "i", "a", "l", "s">>
S_FriTT == <<"F", "R", "I", "D", "A", "Y", " ", "T", "i", "m", "e", " ", "T", "r", "i", "a", "l", "s">>
S_SatWorkers == <<"S", "a", "t", "u", "r", "d", "a", "y", " ", "W", "o", "r", "k", "e", "r", "s">>
S_SatInstr == <<"S", "a", "t", "u", "r", "d", "a", "y", " ", "I", "n", "s", "t", "r", "u", "c", "t", "i", "n", "g">>
S_SatAdv == <<"S", "a", "t", "u", "r", "d", "a", "y", " ", "A", "d", "v", "a", "n", "c", "e", "d", " ", "H", "P", "D", "E">>
S_TT == <<"T", "i", "m", "e", " ", "T", "r", "i", "a", "l", "s">>
G_TTSport == <<"T", "i", "m", "e", " ", "T", "r", "i", "a", "l", "s", " ", "-", " ", "S", "p", "o", "r", "t", " ", "1">>
G_TTMax == <<"T", "I", "M", "E", " ", "T", "R", "I", "A", "L", "S", " ", "-", " ", "M", "a", "x", " ", "2">>
G_Instr == <<"I", "n", "s", "t", "r", "u", "c", "t", "i", "n", "g">>
G_Adv == <<"A", "d", "v", "a", "n", "c", "e", "d", " ", "H", "P", "D", "E">>
G_Workers == <<"W", "o", "r", "k", "e", "r", "s">>
V_Sport1 == <<"S", "p", "o", "r", "t", " ", "1">>
V_Max2 == <<" ", "m", "a", "x", " ", "2">>
V_Mazda == <<"M", "a", "z", "d", "a">>
V_Honda == <<"H", "o", "n", "d", "a">>
V_MX5 == <<"M", "X", "-", "5">>
V_2020 == <<"2", "0", "2", "0">>
V_42 == <<"4", "2">>
V_7 == <<"7">>
V_Red == <<"R", "e", "d">>
V_ACME == <<"A", "C", "M", "E">>
T_Hoosier == <<"H", "o", "o", "s", "i", "e", "r">>
T_Toyo == <<"T", "o", "y", "o">>
A_MailJ == <<"j", "@", "x">>
A_MailK == <<"k", "@", "x">>
A_M1 == <<"M", "1">>
A_M2 == <<"M", "2">>
A_OK == <<"O", "K">>
G_InstrAdv == <<"I", "n", "s", "t", "r", "u", "c", "t", "i", "n", "g", " ", "-", " ", "A", "d", "v", "a", "n", "c", "e", "d", " ", "H", "P", "D", "E">>
V_Tuner3 == <<"T", "u", "n", "e", "r", " ", "3">>
V_Unlimited1 == <<"U", "N", "L", "I", "M", "I", "T", "E", "D", " ", "1">>
V_GT3 == <<"G", "T", "3">>
V_Maximum == <<"M", "a", "x", "i", "m", "u", "m">>
S_SunFriTT == <<"S", "u", "n", "d", "a", "y", " ", "a", "n", "d", " ", "F", "r", "i", "d", "a", "y", " ", "T", "i", "m", "e", " ", "T", "r", "i", "a", "l", "s">>
S_SunSatTT == <<"s", "u", "n", "d", "a", "y", "-", "S", "A", "T", "U", "R", "D", "A", "Y", " ", "t", "i", "m", "e", " ", "t", "r", "i", "a", "l", "s">>
V_Climax == <<"C", "l", "i", "m", "a", "x">>

(***************************************************************************)
(* Input rows.  A row holds every column; a column the file does not have  *)
(* is ABSENT and a column csv.DictReader or json.load filled with None is  *)
(* NULL.                                                                   *)
(***************************************************************************)
VehicleFields == {"class", "make", "model", "year", "vehicleNumber", "color", "sponsor"}

VehNone == [class |-> EMPTY, make |-> EMPTY, model |-> EMPTY, year |-> EMPTY,
            vehicleNumber |-> EMPTY, color |-> EMPTY, sponsor |-> EMPTY]
VehA == [class |-> V_Sport1, make |-> V_Mazda, model |-> V_MX5, year |-> V_2020,
         vehicleNumber |-> V_42, color |-> V_Red, sponsor |-> V_ACME]
VehB == [class |-> V_Max2, make |-> EMPTY, model |-> EMPTY, year |-> EMPTY,
         vehicleNumber |-> V_7, color |-> EMPTY, sponsor |-> EMPTY]
VehC == [class |-> EMPTY, make |-> V_Honda, model |-> NULL, year |-> ABSENT,
         vehicleNumber |-> EMPTY, color |-> NULL, sponsor |-> ABSENT]

Entry(first, last, seg, grp, veh) ==
  [firstName |-> first, lastName |-> last, segment |-> seg, group |-> grp,
   class |-> veh.class, make |-> veh.make, model |-> veh.model, year |-> veh.year,
   vehicleNumber |-> veh.vehicleNumber, color |-> veh.color, sponsor |-> veh.sponsor]

EntryRows ==
  { Entry(S_John, S_Doe, S_SatTT, G_TTSport, VehA),
    Entry(S_JOHN_sp, S_doe_sp, S_SunTT, G_TTMax, VehB),
    Entry(S_John, S_Doe, S_FriTT, G_TTSport, VehC),
    Entry(S_John, S_Doe, S_SatInstr, G_Instr, VehB),
    Entry(S_Jane, S_Smith, S_SatTT, G_TTMax, VehB),
    Entry(S_Jane, S_Smith, S_SatAdv, G_Adv, VehNone),
    Entry(S_Jane, S_Smith, S_SatWorkers, G_TTMax, VehA),
    Entry(S_Worker, S_Only, S_SatWorkers, G_Workers, VehNone),
    Entry(S_John, S_Doe, EMPTY, G_TTSport, VehA),
    Entry(S_Jane, S_Smith, NULL, G_TTSport, VehA),
    Entry(S_Blank, EMPTY, S_SatTT, G_TTSport, VehA),
    Entry(NULL, S_Doe, S_SunTT, G_TTSport, VehNone),
    Entry(S_Bob, S_Jones, S_TT, G_TTSport, VehC),
    Entry(ABSENT, S_Jones, S_SunTT, G_TTSport, VehA),
    Entry(S_Bob, S_Jones, ABSENT, G_TTSport, VehA),
    Entry(S_Jane, S_Smith, S_SunTT, G_InstrAdv, VehA) }

Attendee(first, last, email, memberId, status) ==
  [firstName |-> first, lastName |-> last, email |-> email, memberId |-> memberId,
   status |-> status]

AttendeeRows ==
  { Attendee(S_John, S_Doe, A_MailJ, A_M1, A_OK),
    Attendee(S_JOHN_sp, S_doe_sp, A_MailK, A_M2, EMPTY),
    Attendee(S_Jane, S_Smith, NULL, ABSENT, A_OK),
    Attendee(S_Bob, S_Jones, A_MailK, A_M2, A_OK),
    Attendee(S_Worker, S_Only, A_MailK, A_M2, A_OK),
    Attendee(S_Blank, NULL, A_MailK, A_M2, A_OK) }

Assignment(first, last, grp, tire) ==
  [firstName |-> first, lastName |-> last, group |-> grp, tireBrand |-> tire]

AssignmentRows ==
  { Assignment(S_John, S_Doe, G_TTSport, T_Hoosier),
    Assignment(S_JOHN_sp, S_doe_sp, G_TTMax, T_Toyo),
    Assignment(S_John, S_Doe, G_TTSport, EMPTY),
    Assignment(S_John, S_Doe, G_Instr, T_Toyo),
    Assignment(S_Jane, S_Smith, G_TTMax, NULL),
    Assignment(S_Bob, S_Jones, G_TTSport, T_Hoosier),
    Assignment(EMPTY, S_Blank, G_TTSport, T_Hoosier) }

\* the rows of the longer entry lists
CoreRows ==
  { Entry(S_John, S_Doe, S_SatTT, G_TTSport, VehA),
    Entry(S_JOHN_sp, S_doe_sp, S_SunTT, G_TTMax, VehB),
    Entry(S_John, S_Doe, S_FriTT, G_TTSport, VehC),
    Entry(S_Jane, S_Smith, S_SatTT, G_TTMax, VehB),
    Entry(S_Jane, S_Smith, S_SatWorkers, G_TTMax, VehA) }

\* all sequences over S of length at most n
RECURSIVE SeqsUpTo(_, _)
SeqsUpTo(S, n) ==
  IF n = 0 THEN {<<>>}
  ELSE LET shorter == SeqsUpTo(S, n - 1)
       IN shorter \cup {Append(s, x) : s \in {t \in shorter : Len(t) = n - 1}, x \in S}

\* side inputs of the runs that vary the entry list
BaseAttendees ==
  << Attendee(S_John, S_Doe, A_MailJ, A_M1, A_OK),
     Attendee(S_Worker, S_Only, A_MailK, A_M2, A_OK) >>
BaseAssignments ==
  << Assignment(S_John, S_Doe, G_TTSport, T_Hoosier),
     Assignment(S_Jane, S_Smith, G_Instr, T_Toyo),
     Assignment(S_Bob, S_Jones, G_TTSport, T_Toyo) >>

\* entry lists of the runs that vary the side inputs
BaseEntryLists ==
  { << Entry(S_John, S_Doe, S_SatTT, G_TTSport, VehA),
       Entry(S_Jane, S_Smith, S_SatAdv, G_Adv, VehNone),
       Entry(S_Worker, S_Only, S_SatWorkers, G_Workers, VehNone) >>,
    << Entry(S_Jane, S_Smith, S_SatTT, G_TTMax, VehB),
       Entry(S_JOHN_sp, S_doe_sp, S_SunTT, G_TTMax, VehB) >> }

\* class labels, each on the one time-trials row of a one-row entry list
ClassLabels == {V_Sport1, V_Max2, V_Tuner3, V_Unlimited1, V_GT3, V_Maximum, V_Climax,
                EMPTY, NULL, ABSENT}

ClassEntryLists ==
  { << [Entry(S_Bob, S_Jones, S_SatTT, G_TTSport, VehA) EXCEPT !.class = c] >> :
       c \in ClassLabels }

\* segment texts, each on the one time-trials row of a one-row entry list
SegmentTexts == {S_FriTT, S_SatTT, S_SunTT, S_SunFriTT, S_SunSatTT, S_TT, S_SatWorkers,
                 EMPTY, NULL, ABSENT}

SegmentEntryLists ==
  { << Entry(S_Bob, S_Jones, s, G_TTSport, VehA) >> : s \in SegmentTexts }

\* the three files of the temp_export_dir scenario
ScenarioEntries ==
  << Entry(S_John, S_Doe, S_SatTT, G_TTSport, VehA),
     Entry(S_John, S_Doe, S_SunTT, G_TTSport, VehA),
     Entry(S_Jane, S_Smith, S_SatTT, G_TTMax, VehB),
     Entry(S_Jane, S_Smith, S_SatAdv, G_Adv, VehNone),
     Entry(S_Worker, S_Only, S_SatWorkers, G_Workers, VehNone) >>
ScenarioAttendees ==
  << Attendee(S_John, S_Doe, A_MailJ, A_M1, A_OK),
     Attendee(S_Jane, S_Smith, A_MailK, A_M2, A_OK) >>
ScenarioAssignments ==
  << Assignment(S_John, S_Doe, G_TTSport, T_Hoosier) >>

(***************************************************************************)
(* State                                                                   *)
(***************************************************************************)
VARIABLES
  entrylist,        \* rows of entrylist.csv, in file order
  attendees,        \* rows of attendees.csv, in file order
  assignments,      \* the "assignments" list of assignments.json
  has_assignments,  \* os.path.exists(assignments_json_file)
  pc,               \* position in generate_tt_report
  i,                \* index of the next entry-list row of the fold
  drivers,          \* dict drivers, as <<[key, rec]>> in insertion order
  tt_drivers,       \* dict tt_drivers, same representation
  tire_lookup,      \* dict key -> tire brand
  attendee_lookup,  \* dict key -> attendee row
  rows,             \* the data rows written to the worksheet, in order
  count,            \* the driver count returned by generate_tt_report
  calls,            \* number of calls of generate_tt_report started
  history,          \* <<rows, count>> of every call that returned
  keyring_works,    \* KEYRING_AVAILABLE and the backend answers get_password
  keyring_store,    \* the passwords the keyring holds for the application
  environ,          \* os.environ, the two MSR_ variables
  credentials,      \* outcome of get_credentials since the keyring last changed
  client_pc,        \* position in MSRClient._request
  request,          \* method and resolved retries of the current _request call
  attempt,          \* the loop variable of _request
  http_attempts,    \* HTTP requests sent by the current call
  last_response,    \* the answer to the last of them
  first_ok,         \* the first answer with status 200 of the current call
  only_failures,    \* every answer so far was a 5xx or a transport exception
  outcome,          \* what the call returned or raised
  access_token,     \* MSROAuth.access_token
  access_token_secret,
  token_file,       \* the token file on disk
  oauth_pc,         \* position in run_auth_flow
  oauth_event,      \* the last MSROAuth operation and how it ended
  session           \* what the last get_oauth_session call gave

vars == <<entrylist, attendees, assignments, has_assignments, pc, i, drivers,
          tt_drivers, tire_lookup, attendee_lookup, rows, count, calls, history,
          keyring_works, keyring_store, environ, credentials,
          client_pc, request, attempt, http_attempts, last_response, first_ok,
          only_failures, outcome,
          access_token, access_token_secret, token_file, oauth_pc, oauth_event, session>>

inputs == <<entrylist, attendees, assignments, has_assignments>>

\* the state of the credential manager, which report generation never touches
credential_state == <<keyring_works, keyring_store, environ, credentials>>

\* the state of one MSRClient._request call
client_state == <<client_pc, request, attempt, http_attempts, last_response, first_ok,
                  only_failures, outcome>>

\* the state of an MSROAuth
oauth_state == <<access_token, access_token_secret, token_file, oauth_pc, oauth_event,
                 session>>

\* the state of report generation, which the credential manager never touches
report_state == <<entrylist, attendees, assignments, has_assignments, pc, i, drivers,
                  tt_drivers, tire_lookup, attendee_lookup, rows, count, calls, history>>

(***************************************************************************)
(* dict helpers: a dict that is iterated is a sequence of [key, rec] in    *)
(* insertion order; a dict that is only looked up is a function.           *)
(***************************************************************************)
Keys(d) == {d[n].key : n \in 1..Len(d)}
Has(d, k) == k \in Keys(d)
IndexOf(d, k) == CHOOSE n \in 1..Len(d) : d[n].key = k
Lookup(d, k) == d[IndexOf(d, k)].rec
\* d[k] = r
Put(d, k, r) ==
  IF Has(d, k) THEN [d EXCEPT ![IndexOf(d, k)].rec = r]
  ELSE Append(d, [key |-> k, rec |-> r])
\* f[k] = v on a lookup dict
PutFn(f, k, v) == [x \in (DOMAIN f) \cup {k} |-> IF x = k THEN v ELSE f[x]]
EmptyFn == [x \in {} |-> EMPTY]

(***************************************************************************)
(* Lookups                                                                 *)
(***************************************************************************)
\* _build_tire_lookup that keeps the first tire brand of a key
RECURSIVE tire_fold_first(_, _)
tire_fold_first(lookup, rest) ==
  IF rest = <<>> THEN lookup
  ELSE LET assignment == Head(rest)
           key == get_driver_key(assignment)
           group == Get(assignment, "group", EMPTY)
           tire == Get(assignment, "tireBrand", EMPTY)
       IN IF Truthy(key) /\ key # BAR /\ is_time_trials(group) /\ Truthy(tire)
             /\ key \notin DOMAIN lookup
          THEN tire_fold_first(PutFn(lookup, key, tire), Tail(rest))
          ELSE tire_fold_first(lookup, Tail(rest))

\* _build_tire_lookup without the test for a time-trials group
RECURSIVE tire_fold_any_group(_, _)
tire_fold_any_group(lookup, rest) ==
  IF rest = <<>> THEN lookup
  ELSE LET assignment == Head(rest)
           key == get_driver_key(assignment)
           tire == Get(assignment, "tireBrand", EMPTY)
       IN IF Truthy(key) /\ key # BAR /\ Truthy(tire)
          THEN tire_fold_any_group(PutFn(lookup, key, tire), Tail(rest))
          ELSE tire_fold_any_group(lookup, Tail(rest))

RECURSIVE tire_fold(_, _)
tire_fold(lookup, rest) ==
  IF rest = <<>> THEN lookup
  ELSE LET assignment == Head(rest)
           key == get_driver_key(assignment)
           group == Get(assignment, "group", EMPTY)
           tire == Get(assignment, "tireBrand", EMPTY)
       IN IF Truthy(key) /\ key # BAR /\ is_time_trials(group) /\ Truthy(tire)
          THEN tire_fold(PutFn(lookup, key, tire), Tail(rest))
          ELSE tire_fold(lookup, Tail(rest))

build_tire_lookup ==
  IF ~has_assignments THEN EmptyFn ELSE tire_fold(EmptyFn, assignments)

\* _build_attendee_lookup that keeps the earlier value of a field the later
\* row has empty
RECURSIVE attendee_fold_merge(_, _)
attendee_fold_merge(lookup, rest) ==
  IF rest = <<>> THEN lookup
  ELSE LET att == Head(rest)
           key == get_driver_key(att)
           merged == IF key \in DOMAIN lookup
                     THEN [f \in DOMAIN att |->
                             IF Truthy(att[f]) THEN att[f] ELSE lookup[key][f]]
                     ELSE att
       IN IF Truthy(key) /\ key # BAR
          THEN attendee_fold_merge(PutFn(lookup, key, merged), Tail(rest))
          ELSE attendee_fold_merge(lookup, Tail(rest))

\* _build_attendee_lookup without the test for a blank key
RECURSIVE attendee_fold_blank(_, _)
attendee_fold_blank(lookup, rest) ==
  IF rest = <<>> THEN lookup
  ELSE LET att == Head(rest)
           key == get_driver_key(att)
       IN attendee_fold_blank(PutFn(lookup, key, att), Tail(rest))

RECURSIVE attendee_fold(_, _)
attendee_fold(lookup, rest) ==
  IF rest = <<>> THEN lookup
  ELSE LET att == Head(rest)
           key == get_driver_key(att)
       IN IF Truthy(key) /\ key # BAR
          THEN attendee_fold(PutFn(lookup, key, att), Tail(rest))
          ELSE attendee_fold(lookup, Tail(rest))

build_attendee_lookup(atts) == attendee_fold(EmptyFn, atts)

(***************************************************************************)
(* Aggregation                                                             *)
(***************************************************************************)
\* entry.get("firstName", "").strip() raises AttributeError on None
initialize_raises(entry) ==
  \/ Get(entry, "firstName", EMPTY) = NULL
  \/ Get(entry, "lastName", EMPTY) = NULL

\* _initialize_driver_record without strip()
initialize_driver_record_untrimmed(entry) ==
  [firstName |-> Get(entry, "firstName", EMPTY),
   lastName |-> Get(entry, "lastName", EMPTY),
   class |-> EMPTY, make |-> EMPTY, model |-> EMPTY, year |-> EMPTY,
   vehicleNumber |-> EMPTY, color |-> EMPTY, sponsor |-> EMPTY,
   tireBrand |-> EMPTY,
   is_tt |-> FALSE, is_instructor |-> FALSE, is_advanced_hpde |-> FALSE,
   days_tt |-> {}, days_instructor |-> {}, days_advanced |-> {},
   email |-> EMPTY, memberId |-> EMPTY, status |-> EMPTY]

initialize_driver_record(entry) ==
  [firstName |-> Strip(Get(entry, "firstName", EMPTY)),
   lastName |-> Strip(Get(entry, "lastName", EMPTY)),
   class |-> EMPTY, make |-> EMPTY, model |-> EMPTY, year |-> EMPTY,
   vehicleNumber |-> EMPTY, color |-> EMPTY, sponsor |-> EMPTY,
   tireBrand |-> EMPTY,
   is_tt |-> FALSE, is_instructor |-> FALSE, is_advanced_hpde |-> FALSE,
   days_tt |-> {}, days_instructor |-> {}, days_advanced |-> {},
   email |-> EMPTY, memberId |-> EMPTY, status |-> EMPTY]

\* driver[f] = entry.get(f, "") without the test for a non-empty value
capture_always(driver, entry, f) == OrEmpty(GetOrNone(entry, f))

\* if entry.get(f): driver[f] = entry.get(f, "")
capture(driver, entry, f) ==
  IF Truthy(GetOrNone(entry, f)) THEN Get(entry, f, EMPTY) ELSE driver[f]

\* _update_driver_with_tt_data that replaces the day set by the row's day
update_driver_with_tt_data_overwrite(driver, entry, day) ==
  [driver EXCEPT
     !.is_tt = TRUE,
     !.days_tt = IF day # NoDay THEN {day} ELSE @,
     !.class = capture(driver, entry, "class"),
     !.make = capture(driver, entry, "make"),
     !.model = capture(driver, entry, "model"),
     !.year = capture(driver, entry, "year"),
     !.vehicleNumber = capture(driver, entry, "vehicleNumber"),
     !.color = capture(driver, entry, "color"),
     !.sponsor = capture(driver, entry, "sponsor")]

update_driver_with_tt_data(driver, entry, day) ==
  [driver EXCEPT
     !.is_tt = TRUE,
     !.days_tt = IF day # NoDay THEN @ \cup {day} ELSE @,
     !.class = capture(driver, entry, "class"),
     !.make = capture(driver, entry, "make"),
     !.model = capture(driver, entry, "model"),
     !.year = capture(driver, entry, "year"),
     !.vehicleNumber = capture(driver, entry, "vehicleNumber"),
     !.color = capture(driver, entry, "color"),
     !.sponsor = capture(driver, entry, "sponsor")]

\* _process_entry that starts every row from a fresh driver record
process_entry_reinit(entry, drvs) ==
  IF is_worker_only(Get(entry, "segment", EMPTY))
  THEN [raised |-> FALSE, drivers |-> drvs]
  ELSE
    LET driver_key == get_driver_key(entry)
    IN IF ~Truthy(driver_key) \/ driver_key = BAR
       THEN [raised |-> FALSE, drivers |-> drvs]
       ELSE
         LET group == Get(entry, "group", EMPTY)
             segment == Get(entry, "segment", EMPTY)
             day == parse_segment(segment)
         IN IF initialize_raises(entry)
            THEN [raised |-> TRUE, drivers |-> drvs]
            ELSE
              LET d0 == initialize_driver_record(entry)
                  d1 == IF is_time_trials(group)
                        THEN update_driver_with_tt_data(d0, entry, day)
                        ELSE d0
                  d2 == IF is_instructor(group)
                        THEN [d1 EXCEPT !.is_instructor = TRUE,
                                        !.days_instructor =
                                           IF day # NoDay THEN @ \cup {day} ELSE @]
                        ELSE d1
                  d3 == IF is_advanced_hpde(group)
                        THEN [d2 EXCEPT !.is_advanced_hpde = TRUE,
                                        !.days_advanced =
                                           IF day # NoDay THEN @ \cup {day} ELSE @]
                        ELSE d2
              IN [raised |-> FALSE, drivers |-> Put(drvs, driver_key, d3)]

\* the outcome of _process_entry: [raised, drivers]
process_entry(entry, drvs) ==
  IF is_worker_only(Get(entry, "segment", EMPTY))
  THEN [raised |-> FALSE, drivers |-> drvs]
  ELSE
    LET driver_key == get_driver_key(entry)
    IN IF ~Truthy(driver_key) \/ driver_key = BAR
       THEN [raised |-> FALSE, drivers |-> drvs]
       ELSE
         LET group == Get(entry, "group", EMPTY)
             segment == Get(entry, "segment", EMPTY)
             day == parse_segment(segment)
         IN IF ~Has(drvs, driver_key) /\ initialize_raises(entry)
            THEN [raised |-> TRUE, drivers |-> drvs]
            ELSE
              LET d0 == IF Has(drvs, driver_key) THEN Lookup(drvs, driver_key)
                        ELSE initialize_driver_record(entry)
                  d1 == IF is_time_trials(group)
                        THEN update_driver_with_tt_data(d0, entry, day)
                        ELSE d0
                  d2 == IF is_instructor(group)
                        THEN [d1 EXCEPT !.is_instructor = TRUE,
                                        !.days_instructor =
                                           IF day # NoDay THEN @ \cup {day} ELSE @]
                        ELSE d1
                  d3 == IF is_advanced_hpde(group)
                        THEN [d2 EXCEPT !.is_advanced_hpde = TRUE,
                                        !.days_advanced =
                                           IF day # NoDay THEN @ \cup {day} ELSE @]
                        ELSE d2
              IN [raised |-> FALSE, drivers |-> Put(drvs, driver_key, d3)]

(***************************************************************************)
(* Enrichment                                                              *)
(***************************************************************************)
enrich_record(driver_key, driver, att_lookup, t_lookup) ==
  LET d1 == IF driver_key \in DOMAIN att_lookup
            THEN LET att == att_lookup[driver_key]
                 IN [driver EXCEPT !.email = Get(att, "email", EMPTY),
                                   !.memberId = Get(att, "memberId", EMPTY),
                                   !.status = Get(att, "status", EMPTY)]
            ELSE driver
  IN IF driver_key \in DOMAIN t_lookup
     THEN [d1 EXCEPT !.tireBrand = t_lookup[driver_key]]
     ELSE d1

\* enrichment that also adds a record for every attendee it did not find
RECURSIVE attendee_records(_, _, _)
attendee_records(keys, drvs, att_lookup) ==
  IF keys = {} THEN <<>>
  ELSE LET k == CHOOSE x \in keys : TRUE
           more == attendee_records(keys \ {k}, drvs, att_lookup)
       IN IF Has(drvs, k) THEN more
          ELSE <<[key |-> k,
                  rec |-> [initialize_driver_record(
                              [firstName |-> OrEmpty(GetOrNone(att_lookup[k], "firstName")),
                               lastName |-> OrEmpty(GetOrNone(att_lookup[k], "lastName"))])
                           EXCEPT !.email = Get(att_lookup[k], "email", EMPTY)]]>> \o more

enrich_drivers_adding(drvs, att_lookup, t_lookup) ==
  [n \in 1..Len(drvs) |->
     [key |-> drvs[n].key,
      rec |-> enrich_record(drvs[n].key, drvs[n].rec, att_lookup, t_lookup)]]
    \o attendee_records(DOMAIN att_lookup, drvs, att_lookup)

enrich_drivers_with_metadata(drvs, att_lookup, t_lookup) ==
  [n \in 1..Len(drvs) |->
     [key |-> drvs[n].key,
      rec |-> enrich_record(drvs[n].key, drvs[n].rec, att_lookup, t_lookup)]]

(***************************************************************************)
(* Report assembly                                                         *)
(***************************************************************************)
\* tt_drivers without the is_tt condition
filter_none(drvs) == drvs

\* {k: v for k, v in drivers.items() if v["is_tt"]}
filter_tt(drvs) == SelectSeq(drvs, LAMBDA e : e.rec.is_tt)

\* the sort key without the first name
sort_key_last_only(d) == <<Lower(d.lastName), EMPTY>>

\* the sort key without lower()
sort_key_cased(d) == <<d.lastName, d.firstName>>

\* key=lambda d: (d["lastName"].lower(), d["firstName"].lower())
sort_key(d) == <<Lower(d.lastName), Lower(d.firstName)>>

\* a < b for two sort keys (tuple comparison)
KeyLess(a, b) ==
  \/ StrLess(a[1], b[1])
  \/ a[1] = b[1] /\ StrLess(a[2], b[2])

\* sorted(): stable, so an element goes after every element that is not greater
RECURSIVE sorted_by_key(_)
sorted_by_key(ds) ==
  IF ds = <<>> THEN <<>>
  ELSE LET front == sorted_by_key(SubSeq(ds, 1, Len(ds) - 1))
           d == ds[Len(ds)]
           before == {n \in 1..Len(front) : ~KeyLess(sort_key(d), sort_key(front[n]))}
           pos == IF before = {} THEN 0
                  ELSE CHOOSE n \in before : \A m \in before : m <= n
       IN SubSeq(front, 1, pos) \o <<d>> \o SubSeq(front, pos + 1, Len(front))

\* sorted(tt_drivers.values(), key=...)
sorted_drivers(tt) == sorted_by_key([n \in 1..Len(tt) |-> tt[n].rec])

\* row_data with the day count taken over the days of all three programs
write_driver_row_all_days(driver) ==
  LET fd == format_days_string(driver.days_tt)
      days_str == fd[1]
      day_count == Cardinality(driver.days_tt \cup driver.days_instructor
                               \cup driver.days_advanced)
      is_ayce == driver.is_tt /\ driver.is_advanced_hpde
  IN [FirstName |-> driver.firstName,
      LastName |-> driver.lastName,
      Email |-> driver.email,
      MemberID |-> driver.memberId,
      Class |-> driver.class,
      ClassGroup |-> get_class_group(driver.class),
      VehicleNo |-> driver.vehicleNumber,
      Vehicle |-> format_vehicle_string(driver),
      Color |-> driver.color,
      Tire |-> driver.tireBrand,
      Sponsor |-> driver.sponsor,
      DaysTT |-> days_str,
      DayCount |-> get_day_count(day_count),
      Instructor |-> IF driver.is_instructor THEN "Yes" ELSE "No",
      AYCE |-> IF is_ayce THEN "Yes" ELSE "No",
      ParticipationType |-> get_participation_type(driver.is_instructor, is_ayce),
      Status |-> driver.status]

\* row_data of _write_driver_row
write_driver_row(driver) ==
  LET fd == format_days_string(driver.days_tt)
      days_str == fd[1]
      day_count == fd[2]
      is_ayce == driver.is_tt /\ driver.is_advanced_hpde
  IN [FirstName |-> driver.firstName,
      LastName |-> driver.lastName,
      Email |-> driver.email,
      MemberID |-> driver.memberId,
      Class |-> driver.class,
      ClassGroup |-> get_class_group(driver.class),
      VehicleNo |-> driver.vehicleNumber,
      Vehicle |-> format_vehicle_string(driver),
      Color |-> driver.color,
      Tire |-> driver.tireBrand,
      Sponsor |-> driver.sponsor,
      DaysTT |-> days_str,
      DayCount |-> get_day_count(day_count),
      Instructor |-> IF driver.is_instructor THEN "Yes" ELSE "No",
      AYCE |-> IF is_ayce THEN "Yes" ELSE "No",
      ParticipationType |-> get_participation_type(driver.is_instructor, is_ayce),
      Status |-> driver.status]

(***************************************************************************)
(* Credentials: keyring first, environment second                          *)
(***************************************************************************)
KEY_CONSUMER_KEY == "msr_consumer_key"
KEY_CONSUMER_SECRET == "msr_consumer_secret"
MSR_CONSUMER_KEY == "MSR_CONSUMER_KEY"
MSR_CONSUMER_SECRET == "MSR_CONSUMER_SECRET"
KeyringNames == {KEY_CONSUMER_KEY, KEY_CONSUMER_SECRET}
EnvNames == {MSR_CONSUMER_KEY, MSR_CONSUMER_SECRET}

K_keyring_key == <<"k", "e", "y", "r", "i", "n", "g", "_", "k", "e", "y">>
K_keyring_secret == <<"k", "e", "y", "r", "i", "n", "g", "_", "s", "e", "c", "r", "e", "t">>
K_env_key == <<"e", "n", "v", "_", "k", "e", "y">>
K_env_secret == <<"e", "n", "v", "_", "s", "e", "c", "r", "e", "t">>
K_new_key == <<"n", "e", "w", "_", "k", "e", "y">>
K_new_secret == <<"n", "e", "w", "_", "s", "e", "c", "r", "e", "t">>

\* what the keyring may hold under each name, and os.environ under each variable
KeyringValues ==
  [k \in KeyringNames |->
     IF k = KEY_CONSUMER_KEY THEN {NULL, EMPTY, K_keyring_key}
     ELSE {NULL, EMPTY, K_keyring_secret}]
EnvValues ==
  [k \in EnvNames |->
     IF k = MSR_CONSUMER_KEY THEN {NULL, EMPTY, K_env_key}
     ELSE {NULL, EMPTY, K_env_secret}]

NotCalled == [kind |-> "none", key |-> NULL, secret |-> NULL]
Returned(pair) == [kind |-> "returned", key |-> pair[1], secret |-> pair[2]]
ValueError == [kind |-> "ValueError", key |-> NULL, secret |-> NULL]

keyring_available == keyring_works

get_credentials_from_keyring ==
  IF ~keyring_available THEN <<NULL, NULL>>
  ELSE <<keyring_store[KEY_CONSUMER_KEY], keyring_store[KEY_CONSUMER_SECRET]>>

get_credentials_from_env == <<environ[MSR_CONSUMER_KEY], environ[MSR_CONSUMER_SECRET]>>

\* get_credentials that falls back to the environment for each value on its own
get_credentials_per_value ==
  LET kr == get_credentials_from_keyring
      env == get_credentials_from_env
      consumer_key == IF Truthy(kr[1]) THEN kr[1] ELSE env[1]
      consumer_secret == IF Truthy(kr[2]) THEN kr[2] ELSE env[2]
  IN IF Truthy(consumer_key) /\ Truthy(consumer_secret)
     THEN Returned(<<consumer_key, consumer_secret>>)
     ELSE ValueError

get_credentials ==
  LET kr == get_credentials_from_keyring
  IN IF Truthy(kr[1]) /\ Truthy(kr[2]) THEN Returned(kr)
     ELSE LET env == get_credentials_from_env
          IN IF Truthy(env[1]) /\ Truthy(env[2]) THEN Returned(env)
             ELSE ValueError

GetCredentials ==
  /\ credentials' = get_credentials
  /\ UNCHANGED <<report_state, client_state, oauth_state, keyring_works, keyring_store, environ>>

\* store_credentials: two set_password calls, either of which may raise
StoreCredentials ==
  /\ keyring_available
  /\ \E consumer_key \in {K_keyring_key, K_new_key},
        consumer_secret \in {K_keyring_secret, K_new_secret},
        stored \in 0..2 :
        keyring_store' =
          [k \in KeyringNames |->
             IF k = KEY_CONSUMER_KEY
             THEN IF stored >= 1 THEN consumer_key ELSE keyring_store[k]
             ELSE IF stored >= 2 THEN consumer_secret ELSE keyring_store[k]]
  /\ credentials' = NotCalled
  /\ UNCHANGED <<report_state, client_state, oauth_state, keyring_works, environ>>

\* delete_credentials: two delete_password calls; deleting a password that is
\* not there raises in the backend and ends the method
DeleteCredentials ==
  /\ keyring_available
  /\ keyring_store[KEY_CONSUMER_KEY] # NULL
  /\ keyring_store' = [k \in KeyringNames |-> NULL]
  /\ credentials' = NotCalled
  /\ UNCHANGED <<report_state, client_state, oauth_state, keyring_works, environ>>

(***************************************************************************)
(* API client: MSRClient._request and its retry loop                       *)
(***************************************************************************)
max_retries == 3

\* JSON values of a response body
JNull == [type |-> "null"]
JAbsent == [type |-> "absent"]
JList == [type |-> "list", name |-> "rows"]
JDict(name, response) == [type |-> "dict", name |-> name, response |-> response]
Inner == JDict("inner", JAbsent)
Plain == JDict("plain", JAbsent)
Wrapped == JDict("outer", Inner)
WrappedNull == JDict("outer", JNull)
\* a body that is not JSON: response.json() raises
NotJson == [type |-> "invalid"]

NoStatus == 0
Statuses == {200, 204, 400, 401, 403, 404, 500, 503}
OkBodies == {Wrapped, Plain, JList, JNull, WrappedNull, NotJson}

HttpResponse(status, body) == [kind |-> "response", status_code |-> status, body |-> body]
\* session.get / session.post raised (connection error, timeout)
TransportError == [kind |-> "exception", status_code |-> NoStatus, body |-> NotJson]
NoResponse == [kind |-> "none", status_code |-> NoStatus, body |-> NotJson]
Responses ==
  {HttpResponse(200, b) : b \in OkBodies}
    \cup {HttpResponse(s, Plain) : s \in Statuses \ {200}}
    \cup {TransportError}

Methods == {"GET", "get", "POST", "DELETE"}
Upper(method) ==
  IF method = "get" THEN "GET" ELSE IF method = "post" THEN "POST" ELSE method

APIError(message, status) == [error |-> "APIError", message |-> message, status_code |-> status]
NoError == [error |-> "none", message |-> "", status_code |-> NoStatus]
NoOutcome == [kind |-> "none", value |-> NoError]

\* _execute_http_request: "sent" with the response, or the APIError it raises
execute_http_request(method, resp) ==
  IF Upper(method) \in {"GET", "POST"}
  THEN [sent |-> TRUE, raised |-> resp.kind = "exception", api_error |-> NoError]
  ELSE [sent |-> FALSE, raised |-> TRUE,
        api_error |-> APIError("Unsupported HTTP method", NoStatus)]

\* data["response"] if data is a dict with that key, else data
unwrap(data) ==
  IF data.type = "dict" /\ data.response # JAbsent THEN data.response ELSE data

\* _handle_response_status: [kind, data, api_error]; kind "retry" is the None
\* it returns, also for a body that unwraps to None
handle_response_status(response) ==
  IF response.status_code = 200
  THEN IF response.body = NotJson
       THEN [kind |-> "exception", data |-> JNull, api_error |-> NoError]
       ELSE IF unwrap(response.body) = JNull
            THEN [kind |-> "retry", data |-> JNull, api_error |-> NoError]
            ELSE [kind |-> "data", data |-> unwrap(response.body), api_error |-> NoError]
  ELSE IF response.status_code = 401
  THEN [kind |-> "raise", data |-> JNull,
        api_error |-> APIError("Authentication failed", 401)]
  ELSE IF response.status_code = 403
  THEN [kind |-> "raise", data |-> JNull, api_error |-> APIError("Access forbidden", 403)]
  ELSE IF response.status_code = 404
  THEN [kind |-> "raise", data |-> JNull, api_error |-> APIError("Resource not found", 404)]
  ELSE IF response.status_code >= 500
  THEN [kind |-> "retry", data |-> JNull, api_error |-> NoError]
  ELSE [kind |-> "raise", data |-> JNull,
        api_error |-> APIError("Request failed with status", response.status_code)]

\* one iteration of "for attempt in range(retries + 1)":
\* [kind: "return" | "raise" | "continue", sent, value]
request_iteration(method, retries, n, resp) ==
  LET ex == execute_http_request(method, resp)
  IN IF ~ex.sent THEN [kind |-> "raise", sent |-> FALSE, value |-> ex.api_error]
     ELSE
       LET h == IF ex.raised
                THEN [kind |-> "exception", data |-> JNull, api_error |-> NoError]
                ELSE handle_response_status(resp)
           last_error == IF h.kind = "exception"
                         THEN APIError("Request failed", NoStatus)
                         ELSE APIError("Server error", resp.status_code)
       IN IF h.kind = "data" THEN [kind |-> "return", sent |-> TRUE, value |-> h.data]
          ELSE IF h.kind = "raise"
          THEN [kind |-> "raise", sent |-> TRUE, value |-> h.api_error]
          ELSE IF n < retries
          THEN [kind |-> "continue", sent |-> TRUE, value |-> last_error]
          ELSE [kind |-> "raise", sent |-> TRUE, value |-> last_error]

\* no request is being made
InitClient ==
  /\ client_pc = "idle"
  /\ request = [method |-> "GET", retries |-> max_retries]
  /\ attempt = 0
  /\ http_attempts = 0
  /\ last_response = NoResponse
  /\ first_ok = NoResponse
  /\ only_failures = TRUE
  /\ outcome = NoOutcome

\* _request is called: retries defaults to max_retries, the session is there
Request ==
  /\ client_pc \in {"idle", "returned", "raised"}
  /\ \E method \in Methods, given \in BOOLEAN, retries \in 0..MaxRetries :
        request' = [method |-> method,
                    retries |-> IF given THEN retries ELSE max_retries]
  /\ attempt' = 0
  /\ http_attempts' = 0
  /\ last_response' = NoResponse
  /\ first_ok' = NoResponse
  /\ only_failures' = TRUE
  /\ outcome' = NoOutcome
  /\ client_pc' = "attempt"
  /\ UNCHANGED <<report_state, credential_state, oauth_state>>

\* one attempt: the server answers, or the transport fails
Attempt ==
  /\ client_pc = "attempt"
  /\ attempt <= request.retries
  /\ \E resp \in Responses :
        LET it == request_iteration(request.method, request.retries, attempt, resp)
        IN /\ http_attempts' = IF it.sent THEN http_attempts + 1 ELSE http_attempts
           /\ last_response' = IF it.sent THEN resp ELSE last_response
           /\ first_ok' = IF it.sent /\ first_ok = NoResponse /\ resp.status_code = 200
                          THEN resp ELSE first_ok
           /\ only_failures' = (only_failures /\ it.sent
                                  /\ (resp.kind = "exception" \/ resp.status_code >= 500))
           /\ outcome' = [kind |-> it.kind, value |-> it.value]
           /\ attempt' = IF it.kind = "continue" THEN attempt + 1 ELSE attempt
           /\ client_pc' = CASE it.kind = "continue" -> "attempt"
                             [] it.kind = "return" -> "returned"
                             [] it.kind = "raise" -> "raised"
  /\ UNCHANGED <<report_state, credential_state, oauth_state, request>>

(***************************************************************************)
(* OAuth: the access tokens in memory and in the token file                *)
(***************************************************************************)
T_old == <<"t", "0">>
T_old_secret == <<"s", "0">>
T_new == <<"t", "1">>
T_new_secret == <<"s", "1">>

NoFile == [exists |-> FALSE, access_token |-> NULL, access_token_secret |-> NULL]
TokenFile(token, secret) ==
  [exists |-> TRUE, access_token |-> token, access_token_secret |-> secret]
\* the token files an MSROAuth may find when it is constructed
TokenFiles ==
  {NoFile} \cup {TokenFile(t, s) : t \in {NULL, T_old}, s \in {NULL, T_old_secret}}

has_valid_tokens == Truthy(access_token) /\ Truthy(access_token_secret)

\* the statuses /rest/me answers with; NoStatus is a transport failure
MeStatuses == {200, 401, 500, NoStatus}

NoSession == [made |-> FALSE, raised |-> FALSE, key |-> NULL, secret |-> NULL]
NoEvent == [op |-> "none", status |-> NoStatus, raised |-> FALSE]
Event(op, status, raised) == [op |-> op, status |-> status, raised |-> raised]

\* validate_connection that raises on a 401 and keeps the tokens
validate_connection_keeping(status) ==
  IF ~has_valid_tokens
  THEN [raised |-> TRUE, requested |-> FALSE, access_token |-> access_token,
        access_token_secret |-> access_token_secret, token_file |-> token_file]
  ELSE IF status = 401
  THEN [raised |-> TRUE, requested |-> TRUE, access_token |-> access_token,
        access_token_secret |-> access_token_secret, token_file |-> token_file]
  ELSE IF status # 200
  THEN [raised |-> TRUE, requested |-> TRUE, access_token |-> access_token,
        access_token_secret |-> access_token_secret, token_file |-> token_file]
  ELSE [raised |-> FALSE, requested |-> TRUE, access_token |-> access_token,
        access_token_secret |-> access_token_secret,
        token_file |-> TokenFile(access_token, access_token_secret)]

\* validate_connection on an answer of /rest/me:
\* [raised, requested, access_token, access_token_secret, token_file]
validate_connection(status) ==
  IF ~has_valid_tokens
  THEN [raised |-> TRUE, requested |-> FALSE, access_token |-> access_token,
        access_token_secret |-> access_token_secret, token_file |-> token_file]
  ELSE IF status = 401
  THEN [raised |-> TRUE, requested |-> TRUE, access_token |-> NULL,
        access_token_secret |-> NULL, token_file |-> NoFile]
  ELSE IF status # 200
  THEN [raised |-> TRUE, requested |-> TRUE, access_token |-> access_token,
        access_token_secret |-> access_token_secret, token_file |-> token_file]
  ELSE [raised |-> FALSE, requested |-> TRUE, access_token |-> access_token,
        access_token_secret |-> access_token_secret,
        token_file |-> TokenFile(access_token, access_token_secret)]

\* __init__ has loaded the token file, no method has been called
InitOAuth ==
  /\ token_file \in TokenFiles
  /\ access_token = token_file.access_token
  /\ access_token_secret = token_file.access_token_secret
  /\ oauth_pc = "idle"
  /\ oauth_event = NoEvent
  /\ session = NoSession

\* get_oauth_session called by a client: a session over the tokens, or it raises
GetOAuthSession ==
  /\ oauth_pc \in {"idle", "returned", "raised"}
  /\ session' = IF has_valid_tokens
                THEN [made |-> TRUE, raised |-> FALSE, key |-> access_token,
                      secret |-> access_token_secret]
                ELSE [made |-> FALSE, raised |-> TRUE, key |-> NULL, secret |-> NULL]
  /\ oauth_event' = Event("get_oauth_session", NoStatus, ~has_valid_tokens)
  /\ UNCHANGED <<report_state, credential_state, client_state, access_token,
                 access_token_secret, token_file, oauth_pc>>

\* validate_connection called on its own
ValidateConnection ==
  /\ oauth_pc \in {"idle", "returned", "raised"}
  /\ \E status \in MeStatuses :
        LET v == validate_connection(status)
        IN /\ access_token' = v.access_token
           /\ access_token_secret' = v.access_token_secret
           /\ token_file' = v.token_file
           /\ oauth_event' = Event("validate_connection",
                                   IF v.requested THEN status ELSE NoStatus, v.raised)
  /\ UNCHANGED <<report_state, credential_state, client_state, oauth_pc, session>>

\* run_auth_flow starts: with tokens it validates them first
RunAuthFlow ==
  /\ oauth_pc \in {"idle", "returned", "raised"}
  /\ oauth_pc' = IF has_valid_tokens THEN "validate_existing" ELSE "request_token"
  /\ oauth_event' = Event("run_auth_flow", NoStatus, FALSE)
  /\ UNCHANGED <<report_state, credential_state, client_state, access_token,
                 access_token_secret, token_file, session>>

\* run_auth_flow validates the existing tokens; any exception starts a fresh flow
ValidateExisting ==
  /\ oauth_pc = "validate_existing"
  /\ \E status \in MeStatuses :
        LET v == validate_connection(status)
        IN /\ access_token' = v.access_token
           /\ access_token_secret' = v.access_token_secret
           /\ token_file' = v.token_file
           /\ oauth_event' = Event("validate_connection",
                                   IF v.requested THEN status ELSE NoStatus, v.raised)
           /\ oauth_pc' = IF v.raised THEN "request_token" ELSE "returned"
  /\ UNCHANGED <<report_state, credential_state, client_state, session>>

\* steps 1 to 3: request token, authorization, callback; any of them may fail
RequestAndAuthorize ==
  /\ oauth_pc = "request_token"
  /\ \E ok \in BOOLEAN :
        /\ oauth_pc' = IF ok THEN "exchange" ELSE "raised"
        /\ oauth_event' = Event("get_request_token", NoStatus, ~ok)
  /\ UNCHANGED <<report_state, credential_state, client_state, access_token,
                 access_token_secret, token_file, session>>

\* step 4, get_access_token: the tokens of the answer, saved if there is a token
GetAccessToken ==
  /\ oauth_pc = "exchange"
  /\ \E token \in {NULL, T_new}, secret \in {NULL, T_new_secret} :
        /\ access_token' = token
        /\ access_token_secret' = secret
        /\ token_file' = IF Truthy(token) THEN TokenFile(token, secret) ELSE token_file
        /\ oauth_pc' = IF Truthy(token) THEN "validate_new" ELSE "raised"
        /\ oauth_event' = Event("get_access_token", NoStatus, ~Truthy(token))
  /\ UNCHANGED <<report_state, credential_state, client_state, session>>

\* run_auth_flow validates the new tokens; an exception leaves run_auth_flow
ValidateNew ==
  /\ oauth_pc = "validate_new"
  /\ \E status \in MeStatuses :
        LET v == validate_connection(status)
        IN /\ access_token' = v.access_token
           /\ access_token_secret' = v.access_token_secret
           /\ token_file' = v.token_file
           /\ oauth_event' = Event("validate_connection",
                                   IF v.requested THEN status ELSE NoStatus, v.raised)
           /\ oauth_pc' = IF v.raised THEN "raised" ELSE "returned"
  /\ UNCHANGED <<report_state, credential_state, client_state, session>>

(***************************************************************************)
(* Initial states: the three input files                                   *)
(***************************************************************************)
InitInputs ==
  \/ /\ entrylist \in SeqsUpTo(CoreRows, MaxEntries) \cup SeqsUpTo(EntryRows, MaxMixed)
                         \cup ClassEntryLists \cup SegmentEntryLists
     /\ attendees = BaseAttendees
     /\ assignments = BaseAssignments
     /\ has_assignments = TRUE
  \/ /\ entrylist \in BaseEntryLists
     /\ attendees \in SeqsUpTo(AttendeeRows, MaxAttendees)
     /\ assignments = BaseAssignments
     /\ has_assignments = TRUE
  \/ /\ entrylist \in BaseEntryLists
     /\ attendees = BaseAttendees
     /\ \/ /\ assignments \in SeqsUpTo(AssignmentRows, MaxAssignments)
           /\ has_assignments = TRUE
        \/ /\ assignments = <<>>
           /\ has_assignments = FALSE
  \/ /\ entrylist = ScenarioEntries
     /\ attendees = ScenarioAttendees
     /\ assignments = ScenarioAssignments
     /\ has_assignments = TRUE

\* no call of generate_tt_report has been made
InitReport ==
  /\ pc = "idle"
  /\ i = 1
  /\ drivers = <<>>
  /\ tt_drivers = <<>>
  /\ tire_lookup = EmptyFn
  /\ attendee_lookup = EmptyFn
  /\ rows = <<>>
  /\ count = 0
  /\ calls = 0
  /\ history = <<>>

\* an empty keyring, no MSR_ variable set, get_credentials not called
InitNoCredentials ==
  /\ keyring_works = TRUE
  /\ keyring_store = [k \in KeyringNames |-> NULL]
  /\ environ = [k \in EnvNames |-> NULL]
  /\ credentials = NotCalled

\* an MSROAuth constructed without a token file, no method called
InitNoTokens ==
  /\ token_file = NoFile
  /\ access_token = NULL
  /\ access_token_secret = NULL
  /\ oauth_pc = "idle"
  /\ oauth_event = NoEvent
  /\ session = NoSession

\* no input files
InitNoInputs ==
  /\ entrylist = <<>>
  /\ attendees = <<>>
  /\ assignments = <<>>
  /\ has_assignments = FALSE

Init ==
  /\ InitInputs
  /\ InitReport
  /\ InitNoCredentials
  /\ InitClient
  /\ InitNoTokens

(***************************************************************************)
(* Steps of generate_tt_report                                             *)
(***************************************************************************)
\* a caller invokes generate_tt_report
Call ==
  /\ pc \in {"idle", "done", "raised"}
  /\ calls < MaxCalls
  /\ calls' = calls + 1
  /\ pc' = "read"
  /\ UNCHANGED <<credential_state, client_state, oauth_state, inputs, i, drivers, tt_drivers, tire_lookup, attendee_lookup,
                 rows, count, history>>

\* read the files, build the two lookups, start from an empty drivers dict
ReadInputs ==
  /\ pc = "read"
  /\ tire_lookup' = build_tire_lookup
  /\ attendee_lookup' = build_attendee_lookup(attendees)
  /\ drivers' = <<>>
  /\ i' = 1
  /\ pc' = "fold"
  /\ UNCHANGED <<credential_state, client_state, oauth_state, inputs, tt_drivers, rows, count, calls, history>>

\* an iteration that enriches the drivers right after folding the row
ProcessEntry_enriching ==
  /\ pc = "fold"
  /\ i <= Len(entrylist)
  /\ LET out == process_entry(entrylist[i], drivers)
     IN /\ drivers' = enrich_drivers_with_metadata(out.drivers, attendee_lookup,
                                                   tire_lookup)
        /\ pc' = IF out.raised THEN "raised" ELSE "fold"
        /\ i' = IF out.raised THEN i ELSE i + 1
  /\ UNCHANGED <<credential_state, client_state, oauth_state, inputs, tt_drivers, tire_lookup, attendee_lookup,
                 rows, count, calls, history>>

\* one iteration of "for entry in entrylist"
ProcessEntry ==
  /\ pc = "fold"
  /\ i <= Len(entrylist)
  /\ LET out == process_entry(entrylist[i], drivers)
     IN /\ drivers' = out.drivers
        /\ pc' = IF out.raised THEN "raised" ELSE "fold"
        /\ i' = IF out.raised THEN i ELSE i + 1
  /\ UNCHANGED <<credential_state, client_state, oauth_state, inputs, tt_drivers, tire_lookup, attendee_lookup,
                 rows, count, calls, history>>

\* tt_drivers = the drivers with is_tt
FilterTT ==
  /\ pc = "fold"
  /\ i > Len(entrylist)
  /\ tt_drivers' = filter_tt(drivers)
  /\ pc' = "enrich"
  /\ UNCHANGED <<credential_state, client_state, oauth_state, inputs, i, drivers, tire_lookup, attendee_lookup, rows, count,
                 calls, history>>

\* _enrich_drivers_with_metadata mutates the records, which drivers shares
Enrich ==
  /\ pc = "enrich"
  /\ tt_drivers' = enrich_drivers_with_metadata(tt_drivers, attendee_lookup, tire_lookup)
  /\ drivers' = [n \in 1..Len(drivers) |->
                   IF drivers[n].rec.is_tt
                   THEN [key |-> drivers[n].key,
                         rec |-> enrich_record(drivers[n].key, drivers[n].rec,
                                               attendee_lookup, tire_lookup)]
                   ELSE drivers[n]]
  /\ pc' = "write"
  /\ UNCHANGED <<credential_state, client_state, oauth_state, inputs, i, tire_lookup, attendee_lookup, rows, count, calls, history>>

\* WriteReport that keeps writing into the worksheet of the previous call
WriteReport_reuse ==
  /\ pc = "write"
  /\ LET sd == sorted_drivers(tt_drivers)
     IN /\ rows' = rows \o [n \in 1..Len(sd) |-> write_driver_row(sd[n])]
        /\ count' = Len(sd)
  /\ history' = Append(history, <<rows', count'>>)
  /\ pc' = "done"
  /\ UNCHANGED <<credential_state, client_state, oauth_state, inputs, i, drivers, tt_drivers, tire_lookup, attendee_lookup, calls>>

\* a fresh workbook, the sorted drivers written one row each, the count returned
WriteReport ==
  /\ pc = "write"
  /\ LET sd == sorted_drivers(tt_drivers)
     IN /\ rows' = [n \in 1..Len(sd) |-> write_driver_row(sd[n])]
        /\ count' = Len(sd)
  /\ history' = Append(history, <<rows', count'>>)
  /\ pc' = "done"
  /\ UNCHANGED <<credential_state, client_state, oauth_state, inputs, i, drivers, tt_drivers, tire_lookup, attendee_lookup, calls>>

Next ==
  \/ Call
  \/ ReadInputs
  \/ ProcessEntry
  \/ FilterTT
  \/ Enrich
  \/ WriteReport

Spec == Init /\ [][Next]_vars

\* the credential manager on its own: every keyring and environment
InitCredentials ==
  /\ InitNoInputs
  /\ InitReport
  /\ InitClient
  /\ InitNoTokens
  /\ keyring_works \in BOOLEAN
  /\ keyring_store \in [KeyringNames -> UNION {KeyringValues[k] : k \in KeyringNames}]
  /\ \A k \in KeyringNames : keyring_store[k] \in KeyringValues[k]
  /\ environ \in [EnvNames -> UNION {EnvValues[k] : k \in EnvNames}]
  /\ \A k \in EnvNames : environ[k] \in EnvValues[k]
  /\ credentials = NotCalled

NextCredentials ==
  \/ GetCredentials
  \/ StoreCredentials
  \/ DeleteCredentials

SpecCredentials == InitCredentials /\ [][NextCredentials]_vars

\* the API client on its own: every method, retry count and sequence of answers
InitRequests ==
  /\ InitNoInputs
  /\ InitReport
  /\ InitNoCredentials
  /\ InitNoTokens
  /\ InitClient

NextClient ==
  \/ Request
  \/ Attempt

SpecClient == InitRequests /\ [][NextClient]_vars

\* the loop of _request runs on once it is entered
FairSpecClient == SpecClient /\ WF_vars(Attempt)

\* an MSROAuth on its own: every token file and every answer of the server
InitTokens ==
  /\ InitNoInputs
  /\ InitReport
  /\ InitNoCredentials
  /\ InitClient
  /\ InitOAuth

NextOAuth ==
  \/ GetOAuthSession
  \/ ValidateConnection
  \/ RunAuthFlow
  \/ ValidateExisting
  \/ RequestAndAuthorize
  \/ GetAccessToken
  \/ ValidateNew

SpecOAuth == InitTokens /\ [][NextOAuth]_vars

(***************************************************************************)
(* Vocabulary of the properties, stated on the input rows themselves       *)
(***************************************************************************)
Txt(v) == IF v = NULL \/ v = ABSENT THEN EMPTY ELSE v
\* every text of the input rows, as it stands and trimmed
Range(s) == {s[n] : n \in 1..Len(s)}
RowTexts(R) == UNION {{Txt(r[f]) : f \in DOMAIN r} : r \in R}
EntryTexts ==
  RowTexts(CoreRows \cup EntryRows \cup Range(ScenarioEntries)
             \cup UNION {Range(l) : l \in BaseEntryLists \cup ClassEntryLists
                                                         \cup SegmentEntryLists})
AttendeeTexts ==
  RowTexts(AttendeeRows \cup Range(BaseAttendees) \cup Range(ScenarioAttendees))
AssignmentTexts ==
  RowTexts(AssignmentRows \cup Range(BaseAssignments) \cup Range(ScenarioAssignments))
KnownTexts ==
  LET raw == EntryTexts \cup AttendeeTexts \cup AssignmentTexts
  IN raw \cup {Strip(t) : t \in raw}
Patterns == {TIME_TRIALS, INSTRUCTING, ADVANCED_HPDE, WORKERS, FRIDAY, SATURDAY, SUNDAY}
\* lower(), lower() of strip() and "pat in lower()" tabulated over these texts
LowerOf == [t \in KnownTexts |-> Lower(t)]
NormOf == [t \in KnownTexts |-> Lower(Strip(t))]
MentionOf == [pat \in Patterns |-> {t \in KnownTexts : Contains(pat, Lower(t))}]
Low(t) == IF t \in KnownTexts THEN LowerOf[t] ELSE Lower(t)
Norm(t) == IF t \in KnownTexts THEN NormOf[t] ELSE Lower(Strip(t))
Mentions(pat, v) ==
  IF Txt(v) \in KnownTexts THEN Txt(v) \in MentionOf[pat]
  ELSE Contains(pat, Lower(Txt(v)))

IdentityOf(row) == <<Norm(Txt(row.firstName)), Norm(Txt(row.lastName))>>
RecIdentity(d) == <<Norm(d.firstName), Norm(d.lastName)>>
RowIdentity(r) == <<Norm(r.FirstName), Norm(r.LastName)>>
BlankIdentity == <<EMPTY, EMPTY>>
WorkerRow(row) ==
  Txt(row.segment) = EMPTY \/ Mentions(WORKERS, row.segment)
TimeTrialsText(group) == Mentions(TIME_TRIALS, group)
Last(S) == CHOOSE n \in S : \A m \in S : m <= n
Folding == pc \in {"fold", "enrich", "write", "done"}
Folded == IF pc = "fold" THEN i - 1 ELSE Len(entrylist)
\* the folded rows that count: not a worker row, not a blank identity
Counted == {n \in 1..Folded : ~WorkerRow(entrylist[n])
                                /\ IdentityOf(entrylist[n]) # BlankIdentity}
CountedTT == {n \in Counted : TimeTrialsText(entrylist[n].group)}

(***************************************************************************)
(* C1: while and after the entry list is folded, the driver map holds      *)
(* exactly one participant for every identity (lowercased, trimmed first   *)
(* and last name, not both blank) that occurs on a folded non-worker row,  *)
(* and the report has at most one row per identity.                        *)
(***************************************************************************)
C1_OneParticipantPerIdentity ==
  Folding =>
    /\ \A m, n \in 1..Len(drivers) :
         m # n => RecIdentity(drivers[m].rec) # RecIdentity(drivers[n].rec)
    /\ {RecIdentity(drivers[n].rec) : n \in 1..Len(drivers)}
         = {IdentityOf(entrylist[n]) : n \in Counted}
    /\ pc = "done" =>
         \A m, n \in 1..Len(rows) :
            m # n => RowIdentity(rows[m]) # RowIdentity(rows[n])

\* two rows that spell one identity differently ended up as one participant
C1_Witness ==
  /\ pc = "done"
  /\ Len(drivers) = 1
  /\ Len(rows) = 1
  /\ \E m, n \in Counted :
        /\ entrylist[m].firstName # entrylist[n].firstName
        /\ IdentityOf(entrylist[m]) = IdentityOf(entrylist[n])

(***************************************************************************)
(* C2: processing a row whose segment is empty, absent or contains         *)
(* "workers" leaves the driver map unchanged, whatever its group is.       *)
(***************************************************************************)
C2_WorkerRowChangesNothing ==
  [][(pc = "fold" /\ i <= Len(entrylist) /\ WorkerRow(entrylist[i]))
       => drivers' = drivers]_vars

\* a worker row with a time-trials group was folded over an existing participant
C2_Witness ==
  /\ pc = "fold"
  /\ i > 1
  /\ WorkerRow(entrylist[i - 1])
  /\ Txt(entrylist[i - 1].segment) # EMPTY
  /\ TimeTrialsText(entrylist[i - 1].group)
  /\ \E n \in 1..Len(drivers) :
        RecIdentity(drivers[n].rec) = IdentityOf(entrylist[i - 1])

(***************************************************************************)
(* C3: the report rows are exactly the participants with is_tt; every row  *)
(* belongs to an identity with a non-worker time-trials row and a          *)
(* participant without is_tt has no row.                                   *)
(***************************************************************************)
C3_ReportIsTimeTrialsOnly ==
  pc = "done" =>
    /\ {RowIdentity(rows[n]) : n \in 1..Len(rows)}
         = {RecIdentity(drivers[n].rec) : n \in {m \in 1..Len(drivers) : drivers[m].rec.is_tt}}
    /\ Len(rows) = Cardinality({m \in 1..Len(drivers) : drivers[m].rec.is_tt})
    /\ \A n \in 1..Len(rows) :
          \E m \in CountedTT : IdentityOf(entrylist[m]) = RowIdentity(rows[n])

\* an instructor without time trials was aggregated and is not in the report
C3_Witness ==
  /\ pc = "done"
  /\ rows # <<>>
  /\ \E n \in 1..Len(drivers) :
        /\ drivers[n].rec.is_instructor
        /\ ~drivers[n].rec.is_tt
        /\ \A m \in 1..Len(rows) : RowIdentity(rows[m]) # RecIdentity(drivers[n].rec)

(***************************************************************************)
(* C4: each vehicle field of a participant is the value of that field on   *)
(* the last folded non-worker time-trials row of the identity whose value  *)
(* for that field is non-empty, and empty when there is no such row.       *)
(***************************************************************************)
\* the value of field f on the last row of S that has one
LastValue(S, f) ==
  LET T == {n \in S : Txt(entrylist[n][f]) # EMPTY}
  IN IF T = {} THEN EMPTY ELSE entrylist[Last(T)][f]

\* the folded non-worker time-trials rows of an identity
RowsOf(ident) == {n \in CountedTT : IdentityOf(entrylist[n]) = ident}

C4_LastNonEmptyVehicleValue ==
  Folding =>
    /\ \A n \in 1..Len(drivers) :
          LET S == RowsOf(RecIdentity(drivers[n].rec))
          IN \A f \in VehicleFields : drivers[n].rec[f] = LastValue(S, f)
    /\ pc = "done" =>
          \A n \in 1..Len(rows) :
             LET S == RowsOf(RowIdentity(rows[n]))
             IN /\ rows[n].Class = LastValue(S, "class")
                /\ rows[n].VehicleNo = LastValue(S, "vehicleNumber")
                /\ rows[n].Color = LastValue(S, "color")
                /\ rows[n].Sponsor = LastValue(S, "sponsor")

\* one participant whose class, make and model come from three different rows
C4_Witness ==
  /\ pc = "done"
  /\ \E n \in 1..Len(rows) :
        /\ rows[n].Class = V_Max2
        /\ rows[n].Color = V_Red
        /\ rows[n].Vehicle = V_2020 \o <<" ">> \o V_Honda \o <<" ">> \o V_MX5

(***************************************************************************)
(* C5: report generation never raises on row data, also when a name, the   *)
(* segment, the group or a vehicle field of a row is absent or null.       *)
(***************************************************************************)
C5_NeverRaises == pc # "raised"

(***************************************************************************)
(* C6: consecutive report rows are in ascending order of the pair          *)
(* (lowercased lastName, lowercased firstName).                            *)
(***************************************************************************)
RowPair(r) == <<Low(r.LastName), Low(r.FirstName)>>
PairLeq(a, b) ==
  \/ a = b
  \/ StrLess(a[1], b[1])
  \/ a[1] = b[1] /\ StrLess(a[2], b[2])

C6_RowsSorted ==
  pc = "done" =>
    \A n \in 1..(Len(rows) - 1) : PairLeq(RowPair(rows[n]), RowPair(rows[n + 1]))

\* two rows in the reverse of their order of first appearance, and two rows
\* that the ordering of the names as written would have swapped
C6_Witness ==
  /\ pc = "done"
  /\ Len(rows) = 2
  /\ Len(drivers) = 2
  /\ \/ RecIdentity(drivers[1].rec) = RowIdentity(rows[2])
     \/ StrLess(rows[2].LastName, rows[1].LastName)

(***************************************************************************)
(* C7: the returned count is the number of rows written, which is the      *)
(* number of distinct non-blank identities with a non-worker time-trials   *)
(* row in the entry list.                                                  *)
(***************************************************************************)
C7_CountIsTimeTrialsIdentities ==
  pc = "done" =>
    /\ count = Len(rows)
    /\ count = Cardinality({IdentityOf(entrylist[n]) : n \in CountedTT})

\* three rows, a worker row and a duplicate among them, counted as one driver
C7_Witness ==
  /\ pc = "done"
  /\ count = 1
  /\ Len(entrylist) = 3
  /\ Cardinality(CountedTT) = 2
  /\ \E n \in 1..3 : WorkerRow(entrylist[n])

(***************************************************************************)
(* C8: every call of generate_tt_report over the same files returns the    *)
(* same rows and the same count, and every call starts its fold from an    *)
(* empty driver map.                                                       *)
(***************************************************************************)
C8_Idempotent ==
  /\ \A m, n \in 1..Len(history) : history[m] = history[n]
  /\ (pc = "fold" /\ i = 1) => drivers = <<>>
  /\ pc = "done" => history[Len(history)] = <<rows, count>>

\* a second call returned a non-empty report
C8_Witness ==
  /\ pc = "done"
  /\ calls = 2
  /\ Len(history) = 2
  /\ Len(rows) = 2

(***************************************************************************)
(* C9: enrichment adds no participant: the keys of the driver map are the  *)
(* same before and after it, and an identity that occurs only in the       *)
(* attendee roster, only in the assignment feed or only on worker rows has *)
(* no participant and no report row.                                       *)
(***************************************************************************)
C9_EnrichmentAddsNobody ==
  [][/\ pc = "enrich" =>
          /\ Keys(tt_drivers') = Keys(tt_drivers)
          /\ Len(tt_drivers') = Len(tt_drivers)
          /\ Keys(drivers') = Keys(drivers)
          /\ Len(drivers') = Len(drivers)
     /\ pc' \in {"write", "done"} =>
          /\ \A n \in 1..Len(tt_drivers') :
                \E m \in 1..Len(entrylist) :
                   /\ ~WorkerRow(entrylist[m])
                   /\ IdentityOf(entrylist[m]) = RecIdentity(tt_drivers'[n].rec)
          /\ \A n \in 1..Len(rows') :
                pc' = "done" =>
                   \E m \in 1..Len(entrylist) :
                      /\ ~WorkerRow(entrylist[m])
                      /\ IdentityOf(entrylist[m]) = RowIdentity(rows'[n])]_vars

\* an attendee, an assignment and a worker row of people who are no participant
C9_Witness ==
  /\ pc = "done"
  /\ rows # <<>>
  /\ \E k \in DOMAIN attendee_lookup : k \notin Keys(drivers)
  /\ \E k \in DOMAIN tire_lookup : k \notin Keys(drivers)
  /\ \E n \in 1..Len(entrylist) :
        /\ WorkerRow(entrylist[n])
        /\ IdentityOf(entrylist[n]) \in {IdentityOf(attendees[m]) : m \in 1..Len(attendees)}
        /\ \A m \in 1..Len(drivers) : RecIdentity(drivers[m].rec) # IdentityOf(entrylist[n])

(***************************************************************************)
(* C10: the Tire of a report row is the tireBrand of the last assignment   *)
(* row of the identity that is time trials and has a non-empty tireBrand,  *)
(* and is empty when the identity has no such assignment row.              *)
(***************************************************************************)
TireRows(ident) ==
  {n \in 1..Len(assignments) :
     /\ has_assignments
     /\ IdentityOf(assignments[n]) = ident
     /\ TimeTrialsText(assignments[n].group)
     /\ Txt(assignments[n].tireBrand) # EMPTY}

C10_LastTireWins ==
  pc = "done" =>
    \A n \in 1..Len(rows) :
       LET S == TireRows(RowIdentity(rows[n]))
       IN rows[n].Tire = IF S = {} THEN EMPTY ELSE assignments[Last(S)].tireBrand

\* two qualifying assignment rows with different tires and one row without any
C10_Witness ==
  /\ pc = "done"
  /\ \E n \in 1..Len(rows) :
        LET S == TireRows(RowIdentity(rows[n]))
        IN /\ Cardinality(S) = 2
           /\ \E a, b \in S : a < b /\ assignments[a].tireBrand # assignments[b].tireBrand
           /\ rows[n].Tire = T_Toyo
  /\ \E n \in 1..Len(rows) : rows[n].Tire = EMPTY

\* the attendee rows of an identity; the lookup keeps the last of them
AttendeeOf(ident) == {n \in 1..Len(attendees) : IdentityOf(attendees[n]) = ident}

(***************************************************************************)
(* C11: the Email, Member ID and Status of every report row are strings:   *)
(* copied from the matching attendee row, with an absent or null field     *)
(* turned into the empty string, and all three empty when no attendee      *)
(* matches; a null never reaches a report row.                             *)
(***************************************************************************)
C11_EnrichmentFieldsAreStrings ==
  pc = "done" =>
    \A n \in 1..Len(rows) :
       LET match == AttendeeOf(RowIdentity(rows[n]))
       IN /\ rows[n].Email # NULL /\ rows[n].MemberID # NULL /\ rows[n].Status # NULL
          /\ IF match = {}
             THEN rows[n].Email = EMPTY /\ rows[n].MemberID = EMPTY
                  /\ rows[n].Status = EMPTY
             ELSE LET att == attendees[Last(match)]
                  IN /\ rows[n].Email = Txt(att.email)
                     /\ rows[n].MemberID = Txt(att.memberId)
                     /\ rows[n].Status = Txt(att.status)

\* the day a segment text names
DayOf(segment) ==
  IF Mentions(FRIDAY, segment) THEN "Friday"
  ELSE IF Mentions(SATURDAY, segment) THEN "Saturday"
  ELSE IF Mentions(SUNDAY, segment) THEN "Sunday"
  ELSE NoDay
\* the days named on a set of entry-list rows
DaysOn(S) == {DayOf(entrylist[n].segment) : n \in S} \ {NoDay}
\* the folded non-worker rows of an identity
AllRowsOf(ident) == {n \in Counted : IdentityOf(entrylist[n]) = ident}
\* the set of time-trials days of the participant behind a report row
TTDays(r) == DaysOn(RowsOf(RowIdentity(r)))
DaysLabel(S) ==
  CASE S = {"Friday", "Saturday", "Sunday"} -> "All 3"
    [] S = {"Friday", "Saturday"} -> "Fri/Sat"
    [] S = {"Friday", "Sunday"} -> "Fri/Sun"
    [] S = {"Saturday", "Sunday"} -> "Sat/Sun"
    [] S = {"Friday"} -> "Friday"
    [] S = {"Saturday"} -> "Saturday"
    [] S = {"Sunday"} -> "Sunday"
    [] S = {} -> ""

(***************************************************************************)
(* C12: the Days (TT) string of a row is determined by the set of days of  *)
(* the identity's time-trials rows alone, by the table All 3, Fri/Sat,     *)
(* Fri/Sun, Sat/Sun, the day's name, or the empty string; Friday and       *)
(* Sunday time-trials rows give "Fri/Sun" with Day Count "2 Days".         *)
(***************************************************************************)
C12_DaysString ==
  pc = "done" =>
    \A n \in 1..Len(rows) :
       /\ rows[n].DaysTT = DaysLabel(TTDays(rows[n]))
       /\ TTDays(rows[n]) = {"Friday", "Sunday"} =>
            rows[n].DaysTT = "Fri/Sun" /\ rows[n].DayCount = "2 Days"

\* one identity with a Friday and a Sunday time-trials row, reported
C12_Witness ==
  /\ pc = "done"
  /\ \E n \in 1..Len(rows) :
        /\ TTDays(rows[n]) = {"Friday", "Sunday"}
        /\ rows[n].DaysTT = "Fri/Sun"
        /\ rows[n].DayCount = "2 Days"

DayCountLabel(k) ==
  CASE k = 0 -> ""
    [] k = 1 -> "1 Day"
    [] k = 2 -> "2 Days"
    [] k >= 3 -> "3 Days"

(***************************************************************************)
(* C13: the Day Count of a row is the label of the number of days of the   *)
(* identity's time-trials rows alone; the days of its instructing and      *)
(* advanced rows change neither Day Count nor Days (TT).                   *)
(***************************************************************************)
C13_DayCountFromTimeTrialsDays ==
  pc = "done" =>
    \A n \in 1..Len(rows) :
       /\ rows[n].DayCount = DayCountLabel(Cardinality(TTDays(rows[n])))
       /\ rows[n].DaysTT \in {DaysLabel(S) : S \in SUBSET TTDays(rows[n])}

\* a reported identity that instructed or ran the advanced program on a day
\* without a time-trials row
C13_Witness ==
  /\ pc = "done"
  /\ \E n \in 1..Len(rows) :
        /\ DaysOn(AllRowsOf(RowIdentity(rows[n]))) \ TTDays(rows[n]) # {}
        /\ rows[n].DayCount = "1 Day"

\* the group predicates on the folded non-worker rows of a report row's identity
Instructs(r) ==
  \E n \in AllRowsOf(RowIdentity(r)) : Mentions(INSTRUCTING, entrylist[n].group)
Advanced(r) ==
  \E n \in AllRowsOf(RowIdentity(r)) : Mentions(ADVANCED_HPDE, entrylist[n].group)
YesNo(b) == IF b THEN "Yes" ELSE "No"

(***************************************************************************)
(* C14: on every row the Instructor column tells whether the identity      *)
(* instructs, the AYCE column whether it runs time trials and the advanced *)
(* program, and Participation Type is "TT + Instructor + AYCE",            *)
(* "TT + Instructor", "TT + AYCE" or "TT Only" accordingly; "TT Only"      *)
(* appears only with both columns "No".                                    *)
(***************************************************************************)
C14_ParticipationType ==
  pc = "done" =>
    \A n \in 1..Len(rows) :
       LET r == rows[n]
           instr == Instructs(r)
           ayce == RowsOf(RowIdentity(r)) # {} /\ Advanced(r)
       IN /\ r.Instructor = YesNo(instr)
          /\ r.AYCE = YesNo(ayce)
          /\ r.ParticipationType =
               (CASE instr /\ ayce -> "TT + Instructor + AYCE"
                  [] instr /\ ~ayce -> "TT + Instructor"
                  [] ~instr /\ ayce -> "TT + AYCE"
                  [] ~instr /\ ~ayce -> "TT Only")
          /\ r.ParticipationType = "TT Only" => r.Instructor = "No" /\ r.AYCE = "No"

\* a reported identity that both instructs and runs the advanced program
C14_Witness ==
  /\ pc = "done"
  /\ \E n \in 1..Len(rows) :
        /\ Instructs(rows[n])
        /\ Advanced(rows[n])
        /\ rows[n].ParticipationType = "TT + Instructor + AYCE"

\* the text t begins with the text p
HasPrefix(t, p) == Len(t) >= Len(p) /\ SubSeq(t, 1, Len(p)) = p
\* the family of a class label
FamilyOf(label) ==
  LET t == Strip(Lower(Txt(label)))
  IN CASE HasPrefix(t, MAX) -> "Max"
       [] HasPrefix(t, SPORT) -> "Sport"
       [] HasPrefix(t, TUNER) -> "Tuner"
       [] HasPrefix(t, UNLIMITED) -> "Unlimited"
       [] OTHER -> "Other"
Families == {"Max", "Sport", "Tuner", "Unlimited", "Other"}
\* _get_class_group gives every label its family
LabelsHaveTheirFamily ==
  \A c \in ClassLabels :
     get_class_group(c) = FamilyOf(c) /\ get_class_group(c) \in Families

(***************************************************************************)
(* C15: the class family of a label is "Max", "Sport", "Tuner" or          *)
(* "Unlimited" exactly when the trimmed, lowercased label starts with that *)
(* word, and "Other" for every other label, the empty and the null label   *)
(* included; the Class Group of a row is the family of the identity's      *)
(* final class.                                                            *)
(***************************************************************************)
C15_ClassGroup ==
  /\ LabelsHaveTheirFamily
  /\ pc = "done" =>
       \A n \in 1..Len(rows) :
          /\ rows[n].ClassGroup
               = FamilyOf(LastValue(RowsOf(RowIdentity(rows[n])), "class"))
          /\ rows[n].ClassGroup = FamilyOf(rows[n].Class)
          /\ rows[n].ClassGroup \in Families

\* a reported class that only matches once trimmed and lowercased, and one
\* that holds a family word without starting with it
C15_Witness ==
  /\ pc = "done"
  /\ \E n \in 1..Len(rows) :
        \/ rows[n].Class = V_Max2 /\ rows[n].ClassGroup = "Max"
        \/ rows[n].Class = V_Climax /\ rows[n].ClassGroup = "Other"

Scenario ==
  /\ entrylist = ScenarioEntries
  /\ attendees = ScenarioAttendees
  /\ assignments = ScenarioAssignments
  /\ has_assignments
\* the rows of the report for a first and last name
RowsNamed(first, last) ==
  {n \in 1..Len(rows) : rows[n].FirstName = first /\ rows[n].LastName = last}

(***************************************************************************)
(* C16: for the entry list John Doe Saturday and Sunday time trials, Jane  *)
(* Smith Saturday time trials (Max 2) and Saturday advanced HPDE, Worker   *)
(* Only Saturday workers, with attendees John Doe and Jane Smith and one   *)
(* Hoosier time-trials assignment of John Doe, the report has exactly two  *)
(* rows: John Doe, "Sat/Sun", "2 Days", Hoosier, "TT Only", and Jane       *)
(* Smith, "Saturday", "1 Day", "TT + AYCE"; Worker Only has no row.        *)
(***************************************************************************)
C16_Scenario ==
  (Scenario /\ pc = "done") =>
     /\ Len(rows) = 2
     /\ count = 2
     /\ \E j \in RowsNamed(S_John, S_Doe) :
           /\ rows[j].DaysTT = "Sat/Sun"
           /\ rows[j].DayCount = "2 Days"
           /\ rows[j].Tire = T_Hoosier
           /\ rows[j].ParticipationType = "TT Only"
     /\ \E j \in RowsNamed(S_Jane, S_Smith) :
           /\ rows[j].DaysTT = "Saturday"
           /\ rows[j].DayCount = "1 Day"
           /\ rows[j].ParticipationType = "TT + AYCE"
     /\ RowsNamed(S_Worker, S_Only) = {}

\* the report of the scenario has been written
C16_Witness ==
  /\ Scenario
  /\ pc = "done"
  /\ Len(history) = 1
  /\ RowsNamed(S_John, S_Doe) # {}

\* the folded non-worker rows of an identity whose group holds the text pat
GroupRows(ident, pat) ==
  {n \in AllRowsOf(ident) : Mentions(pat, entrylist[n].group)}

(***************************************************************************)
(* C18: the three program flags and the three day sets of a participant    *)
(* do not depend on the order of the entry-list rows: each flag is the OR, *)
(* over the identity's non-worker rows, of the group predicate, and each   *)
(* day set is the union of the days of the rows the predicate accepts.     *)
(***************************************************************************)
C18_FlagsAndDaysOrderFree ==
  Folding =>
    \A n \in 1..Len(drivers) :
       LET d == drivers[n].rec
           tt == GroupRows(RecIdentity(d), TIME_TRIALS)
           ins == GroupRows(RecIdentity(d), INSTRUCTING)
           adv == GroupRows(RecIdentity(d), ADVANCED_HPDE)
       IN /\ d.is_tt = (tt # {})
          /\ d.is_instructor = (ins # {})
          /\ d.is_advanced_hpde = (adv # {})
          /\ d.days_tt = DaysOn(tt)
          /\ d.days_instructor = DaysOn(ins)
          /\ d.days_advanced = DaysOn(adv)

\* an identity whose time-trials rows came in the order Sunday, Saturday, or
\* after a row of another program
C18_Witness ==
  /\ pc = "done"
  /\ \E n \in 1..Len(drivers) :
        LET d == drivers[n].rec
            tt == GroupRows(RecIdentity(d), TIME_TRIALS)
            all == AllRowsOf(RecIdentity(d))
        IN /\ d.is_tt
           /\ \/ /\ d.days_tt = {"Saturday", "Sunday"}
                 /\ DayOf(entrylist[Last(tt)].segment) = "Saturday"
              \/ /\ d.is_instructor
                 /\ \E m \in all \ tt : \A k \in tt : m < k

(***************************************************************************)
(* C19: in every step of a run, a flag of a participant that is true stays *)
(* true, no day leaves any of its day sets, and no participant leaves the  *)
(* driver map the fold builds.                                             *)
(***************************************************************************)
C19_FlagsAndDaysOnlyGrow ==
  [][pc # "read" =>
       \A n \in 1..Len(drivers) :
          /\ n <= Len(drivers')
          /\ drivers'[n].key = drivers[n].key
          /\ drivers[n].rec.is_tt => drivers'[n].rec.is_tt
          /\ drivers[n].rec.is_instructor => drivers'[n].rec.is_instructor
          /\ drivers[n].rec.is_advanced_hpde => drivers'[n].rec.is_advanced_hpde
          /\ drivers[n].rec.days_tt \subseteq drivers'[n].rec.days_tt
          /\ drivers[n].rec.days_instructor \subseteq drivers'[n].rec.days_instructor
          /\ drivers[n].rec.days_advanced \subseteq drivers'[n].rec.days_advanced]_vars

\* a row of another program and another day was folded over a participant
\* that already had a flag and a day
C19_Witness ==
  /\ pc = "fold"
  /\ i = 3
  /\ IdentityOf(entrylist[1]) = IdentityOf(entrylist[2])
  /\ TimeTrialsText(entrylist[1].group)
  /\ ~TimeTrialsText(entrylist[2].group)
  /\ \E n \in 1..Len(drivers) :
        /\ drivers[n].rec.is_tt
        /\ drivers[n].rec.is_instructor \/ drivers[n].rec.is_advanced_hpde
        /\ drivers[n].rec.days_tt # {}

(***************************************************************************)
(* C20: processing a row whose group does not contain "time trials"        *)
(* leaves the seven vehicle fields, isTimeTrials and daysTimeTrials of     *)
(* every participant unchanged, whatever vehicle values the row carries.   *)
(***************************************************************************)
C20_NonTimeTrialsRowFrame ==
  [][(pc = "fold" /\ i <= Len(entrylist) /\ ~TimeTrialsText(entrylist[i].group)) =>
       /\ \A n \in 1..Len(drivers) :
             /\ \A f \in VehicleFields : drivers'[n].rec[f] = drivers[n].rec[f]
             /\ drivers'[n].rec.is_tt = drivers[n].rec.is_tt
             /\ drivers'[n].rec.days_tt = drivers[n].rec.days_tt
       /\ \A n \in (Len(drivers) + 1)..Len(drivers') :
             /\ \A f \in VehicleFields : drivers'[n].rec[f] = EMPTY
             /\ ~drivers'[n].rec.is_tt
             /\ drivers'[n].rec.days_tt = {}]_vars

\* an instructing row with a class of its own was folded over a participant
\* that has another class
C20_Witness ==
  /\ pc = "fold"
  /\ i > 1
  /\ ~WorkerRow(entrylist[i - 1])
  /\ ~TimeTrialsText(entrylist[i - 1].group)
  /\ Txt(entrylist[i - 1].class) # EMPTY
  /\ \E n \in 1..Len(drivers) :
        /\ RecIdentity(drivers[n].rec) = IdentityOf(entrylist[i - 1])
        /\ drivers[n].rec.is_instructor
        /\ drivers[n].rec.class # EMPTY
        /\ drivers[n].rec.class # entrylist[i - 1].class

\* a value that is there: neither missing nor empty
Present(v) == Txt(v) # EMPTY
KeyringPair == <<keyring_store[KEY_CONSUMER_KEY], keyring_store[KEY_CONSUMER_SECRET]>>
EnvPair == <<environ[MSR_CONSUMER_KEY], environ[MSR_CONSUMER_SECRET]>>
KeyringHoldsBoth == keyring_works /\ Present(KeyringPair[1]) /\ Present(KeyringPair[2])
EnvHoldsBoth == Present(EnvPair[1]) /\ Present(EnvPair[2])

(***************************************************************************)
(* C17: get_credentials returns the keyring pair whenever the keyring      *)
(* holds a consumer key and a consumer secret, whatever the environment    *)
(* holds; otherwise the environment pair when both variables are set;      *)
(* otherwise it raises ValueError. The key and the secret it returns come  *)
(* from one source.                                                        *)
(***************************************************************************)
C17_KeyringThenEnvironment ==
  credentials.kind # "none" =>
    /\ KeyringHoldsBoth =>
         credentials = [kind |-> "returned", key |-> KeyringPair[1],
                        secret |-> KeyringPair[2]]
    /\ (~KeyringHoldsBoth /\ EnvHoldsBoth) =>
         credentials = [kind |-> "returned", key |-> EnvPair[1], secret |-> EnvPair[2]]
    /\ (~KeyringHoldsBoth /\ ~EnvHoldsBoth) => credentials.kind = "ValueError"
    /\ credentials.kind = "returned" =>
         <<credentials.key, credentials.secret>> \in {KeyringPair, EnvPair}

\* the keyring pair was returned although both variables are set, after the
\* keyring was written
C17_Witness ==
  /\ credentials.kind = "returned"
  /\ <<credentials.key, credentials.secret>> = KeyringPair
  /\ EnvHoldsBoth
  /\ KeyringPair # EnvPair
  /\ KeyringPair[1] = K_new_key

\* the text of the key of an identity
KeyText(ident) == ident[1] \o BAR \o ident[2]
\* a name that is empty, whitespace only or missing from the row
BlankName(v) == v # NULL /\ Strip(Txt(v)) = EMPTY
\* exactly one of the two names of the row is blank, the other is a text
OneBlankName(row) ==
  \/ BlankName(row.firstName) /\ row.lastName # NULL /\ ~BlankName(row.lastName)
  \/ BlankName(row.lastName) /\ row.firstName # NULL /\ ~BlankName(row.firstName)

(***************************************************************************)
(* C21: a row whose first and last name are both blank is left out         *)
(* everywhere: no participant, no attendee-lookup key and no tire-lookup   *)
(* key stands for the blank identity, and folding such an entry-list row   *)
(* changes no participant; a row with exactly one blank name is            *)
(* aggregated under its own key, such as "|jones".                         *)
(***************************************************************************)
C21_BlankIdentityExcluded ==
  Folding =>
    /\ \A n \in 1..Len(drivers) :
          drivers[n].key # BAR /\ RecIdentity(drivers[n].rec) # BlankIdentity
    /\ DOMAIN attendee_lookup
         = {KeyText(IdentityOf(attendees[n])) : n \in 1..Len(attendees)} \ {BAR}
    /\ BAR \notin DOMAIN tire_lookup
    /\ DOMAIN tire_lookup \subseteq
         {KeyText(IdentityOf(assignments[n])) : n \in 1..Len(assignments)}
    /\ Len(drivers) = Cardinality({IdentityOf(entrylist[n]) : n \in Counted})
    /\ \A n \in 1..Folded :
          (~WorkerRow(entrylist[n]) /\ OneBlankName(entrylist[n])) =>
             \E m \in 1..Len(drivers) :
                drivers[m].key = KeyText(IdentityOf(entrylist[n]))

\* a time-trials row with both names blank and a row with only a last name
\* were folded; one participant came of it
C21_Witness ==
  /\ pc = "done"
  /\ Len(drivers) = 1
  /\ drivers[1].key = BAR \o Lower(S_Jones)
  /\ \E n \in 1..Folded :
        /\ ~WorkerRow(entrylist[n])
        /\ IdentityOf(entrylist[n]) = BlankIdentity
        /\ TimeTrialsText(entrylist[n].group)

\* the days whose name occurs somewhere in a segment text
DaysNamed(segment) ==
  (IF Mentions(FRIDAY, segment) THEN {"Friday"} ELSE {})
    \cup (IF Mentions(SATURDAY, segment) THEN {"Saturday"} ELSE {})
    \cup (IF Mentions(SUNDAY, segment) THEN {"Sunday"} ELSE {})
\* the first of Friday, Saturday, Sunday in a set of days
FirstDay(S) ==
  IF "Friday" \in S THEN "Friday"
  ELSE IF "Saturday" \in S THEN "Saturday"
  ELSE IF "Sunday" \in S THEN "Sunday"
  ELSE NoDay
DaySets == {"days_tt", "days_instructor", "days_advanced"}
\* the day set f of the n-th participant before a step; empty if it is new
DaysBefore(n, f) == IF n <= Len(drivers) THEN drivers[n].rec[f] ELSE {}

(***************************************************************************)
(* C22: the day of a segment is the first of Friday, Saturday, Sunday      *)
(* whose name occurs anywhere in the text, whatever the letter case, and   *)
(* no day for an empty, absent or day-less segment; so folding one row     *)
(* adds at most that one day to any day set, and a time-trials row with no *)
(* day sets the flag and adds no day.                                      *)
(***************************************************************************)
C22_OneDayPerSegment ==
  [][(pc = "fold" /\ i <= Len(entrylist) /\ pc' = "fold") =>
          LET row == entrylist[i]
              day == FirstDay(DaysNamed(row.segment))
          IN /\ parse_segment(row.segment) = day
             /\ \A n \in 1..Len(drivers') : \A f \in DaySets :
                   drivers'[n].rec[f] \ DaysBefore(n, f) \subseteq {day} \ {NoDay}
             /\ (i \in CountedTT') =>
                   \E n \in 1..Len(drivers') :
                      /\ RecIdentity(drivers'[n].rec) = IdentityOf(row)
                      /\ drivers'[n].rec.is_tt
                      /\ day = NoDay => drivers'[n].rec.days_tt = DaysBefore(n, "days_tt")
    ]_vars

\* a row naming Sunday before Friday gave Friday alone, or a time-trials row
\* naming no day gave the flag without a day
C22_Witness ==
  /\ pc = "done"
  /\ Len(drivers) = 1
  /\ drivers[1].rec.is_tt
  /\ \/ entrylist[1].segment = S_SunFriTT /\ drivers[1].rec.days_tt = {"Friday"}
     \/ entrylist[1].segment = S_TT /\ drivers[1].rec.days_tt = {}

\* the assignment rows of an identity that are time trials, or are not
TTAssignments(ident) ==
  {n \in 1..Len(assignments) :
     has_assignments /\ IdentityOf(assignments[n]) = ident
       /\ TimeTrialsText(assignments[n].group)}
OtherAssignments(ident) ==
  {n \in 1..Len(assignments) :
     has_assignments /\ IdentityOf(assignments[n]) = ident
       /\ ~TimeTrialsText(assignments[n].group)}

(***************************************************************************)
(* C23: a tire brand comes only from an assignment row that is time trials *)
(* and has a non-empty tireBrand: when none of an identity's time-trials   *)
(* assignment rows has a tire brand its Tire is empty, also when another   *)
(* assignment row of the identity, before or after, has one.               *)
(***************************************************************************)
C23_TireOnlyFromTimeTrialsRows ==
  /\ Folding =>
       \A k \in DOMAIN tire_lookup :
          \E n \in 1..Len(assignments) :
             /\ KeyText(IdentityOf(assignments[n])) = k
             /\ TimeTrialsText(assignments[n].group)
             /\ Txt(assignments[n].tireBrand) # EMPTY
             /\ tire_lookup[k] = assignments[n].tireBrand
  /\ pc = "done" =>
       \A n \in 1..Len(rows) :
          LET tt == TTAssignments(RowIdentity(rows[n]))
          IN /\ (\A m \in tt : Txt(assignments[m].tireBrand) = EMPTY) =>
                   rows[n].Tire = EMPTY
             /\ rows[n].Tire # EMPTY =>
                   \E m \in tt : rows[n].Tire = assignments[m].tireBrand

\* a reported identity whose time-trials assignment has no tire brand and
\* whose later instructing assignment has one
C23_Witness ==
  /\ pc = "done"
  /\ \E n \in 1..Len(rows) :
        LET tt == TTAssignments(RowIdentity(rows[n]))
            other == OtherAssignments(RowIdentity(rows[n]))
        IN /\ tt # {}
           /\ rows[n].Tire = EMPTY
           /\ \E m \in other : /\ Txt(assignments[m].tireBrand) # EMPTY
                               /\ \A k \in tt : k < m

EnrichmentFields == {"email", "memberId", "status", "tireBrand"}

(***************************************************************************)
(* C24: enrichment is one step after the whole entry list is folded: while *)
(* rows are being folded the email, memberId, status and tireBrand of      *)
(* every participant are empty, no row is folded once the fold has ended,  *)
(* and in one run the enrichment fields are written by that one step only. *)
(***************************************************************************)
C24_EnrichmentOnceAfterFold ==
  [][/\ pc' = "fold" =>
          \A n \in 1..Len(drivers') : \A f \in EnrichmentFields :
             drivers'[n].rec[f] = EMPTY
     /\ pc' = "enrich" => i' > Len(entrylist)
     /\ pc \in {"enrich", "write", "done"} =>
          \/ pc' = "read"
          \/ /\ i' = i
             /\ Len(drivers') = Len(drivers)
             /\ pc = "enrich" => pc' = "write"
             /\ pc' # "enrich"
     /\ (pc # "enrich" /\ pc # "read") =>
          \A n \in 1..Len(drivers) : \A f \in EnrichmentFields :
             n <= Len(drivers') /\ drivers'[n].rec[f] = drivers[n].rec[f]
    ]_vars

\* a run over two or more rows ended with an enriched participant
C24_Witness ==
  /\ pc = "done"
  /\ Len(entrylist) >= 2
  /\ \E n \in 1..Len(drivers) :
        /\ drivers[n].rec.email # EMPTY
        /\ drivers[n].rec.tireBrand # EMPTY

\* the first element of a non-empty set of row numbers
First(S) == CHOOSE n \in S : \A m \in S : n <= m

(***************************************************************************)
(* C25: the first and last name shown for a participant are the trimmed    *)
(* names on the first non-worker entry-list row of its identity, be it a   *)
(* time-trials row or not; later rows of the identity that spell the names *)
(* in another case or with spaces do not change them.                      *)
(***************************************************************************)
C25_FirstSeenNames ==
  Folding =>
    /\ \A n \in 1..Len(drivers) :
          LET d == drivers[n].rec
              first == entrylist[First(AllRowsOf(RecIdentity(d)))]
          IN /\ d.firstName = Strip(Txt(first.firstName))
             /\ d.lastName = Strip(Txt(first.lastName))
    /\ pc = "done" =>
         \A n \in 1..Len(rows) :
            LET first == entrylist[First(AllRowsOf(RowIdentity(rows[n])))]
            IN /\ rows[n].FirstName = Strip(Txt(first.firstName))
               /\ rows[n].LastName = Strip(Txt(first.lastName))

\* a reported identity whose first row is an instructing row and whose later
\* time-trials row spells the names differently
C25_Witness ==
  /\ pc = "done"
  /\ \E n \in 1..Len(rows) :
        LET all == AllRowsOf(RowIdentity(rows[n]))
        IN /\ ~TimeTrialsText(entrylist[First(all)].group)
           /\ \E m \in all : /\ entrylist[m].firstName # entrylist[First(all)].firstName
                             /\ rows[n].FirstName # Strip(Txt(entrylist[m].firstName))

\* a < b for two (lastName, firstName) pairs
PairLess(a, b) ==
  \/ StrLess(a[1], b[1])
  \/ a[1] = b[1] /\ StrLess(a[2], b[2])
\* the row number of the first non-worker entry-list row of a report row's identity
FirstSeen(r) == First(AllRowsOf(RowIdentity(r)))

(***************************************************************************)
(* C26: no two rows of the report have the same lowercased (lastName,      *)
(* firstName) pair, since the pair is the identity the map is indexed by;  *)
(* the sort has no ties, so the rows are strictly increasing whatever the  *)
(* order in which the identities first appear in the entry list.           *)
(***************************************************************************)
C26_SortHasNoTies ==
  pc = "done" =>
    /\ \A m, n \in 1..Len(rows) :
          m # n => RowPair(rows[m]) # RowPair(rows[n])
    /\ \A m, n \in 1..Len(rows) :
          m < n => PairLess(RowPair(rows[m]), RowPair(rows[n]))
    /\ \A n \in 1..Len(rows) :
          RowPair(rows[n]) = <<RowIdentity(rows[n])[2], RowIdentity(rows[n])[1]>>

\* two reported identities with one last name, the first row being the one
\* that appears later in the entry list
C26_Witness ==
  /\ pc = "done"
  /\ Len(rows) = 2
  /\ RowPair(rows[1])[1] = RowPair(rows[2])[1]
  /\ FirstSeen(rows[2]) < FirstSeen(rows[1])

\* the value enrichment takes from an attendee row: "" for a missing column
Taken(v) == IF v = ABSENT THEN EMPTY ELSE v

(***************************************************************************)
(* C27: when several attendee rows have one identity, the email, memberId  *)
(* and status of the participant all come from the last of them in input   *)
(* order: the whole row replaces the earlier one, field by field nothing   *)
(* of an earlier row survives.                                             *)
(***************************************************************************)
C27_LastAttendeeRowWins ==
  /\ Folding =>
       \A k \in DOMAIN attendee_lookup :
          attendee_lookup[k]
            = attendees[Last({n \in 1..Len(attendees) :
                                KeyText(IdentityOf(attendees[n])) = k})]
  /\ pc = "done" =>
       \A n \in 1..Len(rows) :
          LET match == AttendeeOf(RowIdentity(rows[n]))
          IN match # {} =>
               /\ rows[n].Email = Taken(attendees[Last(match)].email)
               /\ rows[n].MemberID = Taken(attendees[Last(match)].memberId)
               /\ rows[n].Status = Taken(attendees[Last(match)].status)

\* a reported identity with two attendee rows, the last with an empty status
\* where the first has one
C27_Witness ==
  /\ pc = "done"
  /\ \E n \in 1..Len(rows) :
        LET match == AttendeeOf(RowIdentity(rows[n]))
        IN /\ Cardinality(match) = 2
           /\ attendees[First(match)].email # attendees[Last(match)].email
           /\ Txt(attendees[First(match)].status) # EMPTY
           /\ rows[n].Status = EMPTY
           /\ rows[n].Email = attendees[Last(match)].email

(***************************************************************************)
(* The API client's retry loop                                             *)
(***************************************************************************)
\* the method of the current call is one _execute_http_request sends
Supported == Upper(request.method) \in {"GET", "POST"}

\* the answer is a 5xx status or a transport exception
Failure(resp) == resp.kind = "exception" \/ resp.status_code >= 500

\* the APIError _request builds for a failed attempt
Describes(error, resp) ==
  /\ error.error = "APIError"
  /\ error.status_code = resp.status_code
  /\ error.message = IF resp.kind = "exception" THEN "Request failed" ELSE "Server error"

\* a call never sends more than retries + 1 requests, 4 with the default
AtMostRetriesPlusOne ==
  /\ http_attempts <= request.retries + 1
  /\ attempt <= request.retries
  /\ (request.retries = max_retries => http_attempts <= 4)

\* a call that ended has returned data or raised an APIError
ReturnsOrRaises ==
  /\ (client_pc = "returned" => outcome.kind = "return")
  /\ (client_pc = "raised" => outcome.kind = "raise" /\ outcome.value.error = "APIError")

\* the first answer with status 200 ends the call, which returns its unwrapped body
ReturnsFirst200 ==
  /\ (first_ok # NoResponse =>
        /\ client_pc = "returned"
        /\ last_response = first_ok
        /\ outcome.value = unwrap(first_ok.body))
  /\ (client_pc = "returned" => first_ok # NoResponse)

\* after nothing but failures the APIError raised is that of the last attempt
RaisesLastFailure ==
  (client_pc = "raised" /\ only_failures /\ http_attempts > 0) =>
     /\ http_attempts = request.retries + 1
     /\ Describes(outcome.value, last_response)

\* C28: whatever the server answers and however the transport fails, _request
\* sends at most retries + 1 HTTP requests (4 with the default max_retries = 3)
\* and ends by returning the unwrapped body of the first 200 response or by
\* raising APIError; when every attempt met a 5xx status or a transport
\* exception, the APIError raised describes the last attempt.
C28_BoundedAttemptsFirst200OrAPIError ==
  /\ AtMostRetriesPlusOne
  /\ ReturnsOrRaises
  /\ ReturnsFirst200
  /\ RaisesLastFailure

\* every call comes to an end
RequestTerminates == (client_pc = "attempt") ~> (client_pc \in {"returned", "raised"})

\* C29: a 401, 403, 404 or any other status below 500 that is not 200, and an
\* unsupported HTTP method, make _request raise APIError on that very attempt,
\* with the status code when there is one, and nothing more is sent; only a
\* status >= 500 or an exception other than APIError leads to another attempt.
C29_RaisesAtOnceRetriesOnlyFailures ==
  [][client_pc = "attempt" =>
       /\ (~Supported =>
             /\ client_pc' = "raised"
             /\ http_attempts' = http_attempts
             /\ outcome'.value.error = "APIError"
             /\ outcome'.value.status_code = NoStatus)
       /\ (Supported /\ last_response'.kind = "response"
             /\ last_response'.status_code # 200 /\ last_response'.status_code < 500 =>
             /\ client_pc' = "raised"
             /\ outcome'.value.error = "APIError"
             /\ outcome'.value.status_code = last_response'.status_code)
       /\ (client_pc' = "attempt" =>
             /\ Supported
             /\ \/ Failure(last_response')
                \/ last_response' = HttpResponse(200, NotJson))]_vars

(***************************************************************************)
(* Rejected tokens                                                         *)
(***************************************************************************)
\* the last operation was a validate_connection that /rest/me answered with 401
Rejected == oauth_event.op = "validate_connection" /\ oauth_event.status = 401

\* no token in memory and no token file
Cleared ==
  /\ access_token = NULL
  /\ access_token_secret = NULL
  /\ ~token_file.exists
  /\ ~has_valid_tokens

\* C30: when validate_connection receives a 401 it raises with the access token
\* and secret in memory cleared and the token file deleted, so has_valid_tokens
\* is false afterwards and a get_oauth_session that follows raises and builds no
\* session from the rejected tokens; run_auth_flow goes on to a fresh
\* request-token flow and does not return.
C30_RejectedTokensCleared ==
  [][/\ (Rejected' =>
           /\ oauth_event'.raised
           /\ Cleared'
           /\ (oauth_pc = "validate_existing" => oauth_pc' = "request_token"))
     /\ (Rejected /\ oauth_event'.op = "get_oauth_session" =>
           /\ oauth_event'.raised
           /\ session'.raised
           /\ ~session'.made)]_vars

\* run_auth_flow found a token file, the server rejected its tokens, and the
\* fresh flow is about to start
C30_Witness ==
  /\ Rejected
  /\ oauth_event.raised
  /\ oauth_pc = "request_token"
  /\ Cleared

====
